---- MODULE Spec2Model ----
(***************************************************************************)
(* State-machine model of the layr8 node SDK: the session client           *)
(* (src/src/client.ts), the Phoenix channel transport and the handler      *)
(* registry (src/src/channel.ts) and the envelope codec and error classes  *)
(* (src/unnamed/part_003).                                                 *)
(*                                                                         *)
(* JavaScript runs every callback to completion, so one action is one      *)
(* synchronous run: a public method up to the promise it returns, one      *)
(* socket event with its listeners, one timer tick, one abort signal       *)
(* firing, one continuation after an await.                                *)
(***************************************************************************)
EXTENDS Integers, Sequences, FiniteSets, TLC

\* ------------------------------------------------------------------ bounds
MaxReq == 2      \* request() calls issued in one behaviour
MaxChan == 2     \* PhoenixChannel objects created by connect() calls
MaxRef == 3      \* refs a channel hands out to frames other than phx_leave
MaxTask == 1     \* handler invocations in one behaviour
MaxAck == 1      \* calls of the ack callback one handler makes
MaxFrame == 2    \* frames the remote side writes to one socket ahead of the read loop

\* ------------------------------------------------------------------ values
ABSENT == "<absent>"     \* a JSON key that is missing (undefined)
NULL == "<null>"         \* JSON null

ProblemReportType == "https://didcomm.org/report-problem/2.0/problem-report"
ReqType == "https://layr8.io/protocols/echo/1.0/request"
RespType == "https://layr8.io/protocols/echo/1.0/response"
BareType == "basicmessage"          \* a type string with no "/" in it
EchoProtocol == "https://layr8.io/protocols/echo/1.0"   \* a prefix of ReqType

WsUrl == "ws://node/plugin_socket/websocket"
Bob == "did:web:bob"

\* generateId(): uuid v4, a fresh value on every call; k = the calls made before.
Uuid == <<"uuid-1", "uuid-2", "uuid-3", "uuid-4", "uuid-5", "uuid-6",
          "uuid-7", "uuid-8", "uuid-9", "uuid-10", "uuid-11", "uuid-12">>
generateId(k) == Uuid[k + 1]

\* thread identifiers a caller passes to request() ("" = none passed)
CallerThreads == {"", "t1"}

\* the reason of an AbortSignal: abort(null) leaves reason null
SignalReasons == {NULL, "TimeoutError"}

Chans == 1..MaxChan
Reqs == 1..MaxReq

\* ------------------------------------------------------------------ state
VARIABLES
    connected,      \* Layr8Client.connected
    isClosed,       \* Layr8Client.isClosed
    channel,        \* Layr8Client.channel: 0 = null, else the channel object
    agentDid,       \* Layr8Client.agentDid
    cfgAgentDid,    \* cfg.agentDid (read-only after construction)
    pending,        \* Layr8Client.pending: thread id -> request whose callback it holds (0 = no entry)
    registry,       \* HandlerRegistry.handlers: type -> its HandlerEntry (NoEntry = none)
    req,            \* the promise, signal and listener of every request() call
    nreq,           \* number of request() calls that got past the connected check
    idCounter,      \* number of generateId() calls made so far
    chan,           \* every PhoenixChannel object created so far
    wire,           \* frames written to sockets, in order
    tasks,          \* handler invocations: running and completed
    emitted,        \* events emitted by the client
    inbox           \* per socket: the frames the remote side wrote to it, in order,
                    \* and how many of them its "message" listener has been given

\* the fields of the client
clientFields == <<connected, isClosed, channel, agentDid, cfgAgentDid>>
\* with the frames in flight to it, which only the remote side and the read
\* loop touch
clientVars == <<clientFields, inbox>>
\* everything but the frames in flight
stateVars == <<clientFields, pending, registry, req, nreq, idCounter, chan, wire, tasks,
               emitted>>
vars == <<connected, isClosed, channel, agentDid, cfgAgentDid, pending, registry,
          req, nreq, idCounter, chan, wire, tasks, emitted, inbox>>

\* ------------------------------------------------------------------ message codec
\* a JSON body: missing, null or an object (its keys ABSENT when missing)
Body(kind, code, comment, index) ==
    [kind |-> kind, code |-> code, comment |-> comment, index |-> index]
AbsentBody == Body("absent", ABSENT, ABSENT, ABSENT)
NullBody == Body("null", ABSENT, ABSENT, ABSENT)
EmptyObject == Body("object", ABSENT, ABSENT, ABSENT)

\* a || b on strings: "" and undefined are falsy
OrElse(a, b) == IF a \in {"", ABSENT, NULL} THEN b ELSE a
\* a ?? b: only undefined and null fall through
Coalesce(a, b) == IF a \in {ABSENT, NULL} THEN b ELSE a
CoalesceBody(a, b) == IF a.kind \in {"absent", "null"} THEN b ELSE a

\* a Partial<Message> as callers and handlers pass it
Partial(id, type, from, to, threadId, parentThreadId, body) ==
    [id |-> id, type |-> type, from |-> from, to |-> to, threadId |-> threadId,
     parentThreadId |-> parentThreadId, body |-> body]

\* a fillMessage that leaves the sender as the caller gave it
fillMessageKeepsFrom(msg, k) ==
    [id |-> OrElse(msg.id, generateId(k)),
     type |-> OrElse(msg.type, ""),
     from |-> msg.from,
     to |-> msg.to,
     threadId |-> OrElse(msg.threadId, ""),
     parentThreadId |-> OrElse(msg.parentThreadId, ""),
     body |-> CoalesceBody(msg.body, NullBody),
     bodyRaw |-> AbsentBody]

\* Layr8Client.fillMessage; k = generateId() calls made before
fillMessage(msg, k) ==
    [id |-> OrElse(msg.id, generateId(k)),
     type |-> OrElse(msg.type, ""),
     from |-> OrElse(msg.from, agentDid),
     to |-> msg.to,
     threadId |-> OrElse(msg.threadId, ""),
     parentThreadId |-> OrElse(msg.parentThreadId, ""),
     body |-> CoalesceBody(msg.body, NullBody),
     bodyRaw |-> AbsentBody]
\* generateId() calls fillMessage makes
fillIds(msg) == IF OrElse(msg.id, "") = "" THEN 1 ELSE 0

\* a marshalDIDComm that leaves the parent thread out
marshalDIDCommNoParent(msg) ==
    [id |-> msg.id, type |-> msg.type, from |-> msg.from, to |-> msg.to,
     thid |-> IF msg.threadId = "" THEN ABSENT ELSE msg.threadId,
     pthid |-> ABSENT,
     body |-> CoalesceBody(msg.body, CoalesceBody(msg.bodyRaw, EmptyObject)),
     ids |-> <<>>, payload_types |-> {}]

\* marshalDIDComm: the envelope written as the payload of a "message" frame,
\* as JSON.parse reads it back (a key is missing when it was not set)
marshalDIDComm(msg) ==
    [id |-> msg.id, type |-> msg.type, from |-> msg.from, to |-> msg.to,
     thid |-> IF msg.threadId = "" THEN ABSENT ELSE msg.threadId,
     pthid |-> IF msg.parentThreadId = "" THEN ABSENT ELSE msg.parentThreadId,
     body |-> CoalesceBody(msg.body, CoalesceBody(msg.bodyRaw, EmptyObject)),
     ids |-> <<>>, payload_types |-> {}]

\* the `to` key of a plaintext that has none
NoList == <<ABSENT>>

\* the plaintext of an inbound envelope as the remote side builds it
Plaintext(id, type, from, thid, body) ==
    [id |-> id, type |-> type, from |-> from, to |-> NoList, thid |-> thid,
     pthid |-> ABSENT, body |-> body]

\* parseDIDComm on a payload that has a plaintext object
parseDIDComm(pt) ==
    [id |-> OrElse(pt.id, ""),
     type |-> OrElse(pt.type, ""),
     from |-> OrElse(pt.from, ""),
     to |-> IF pt.to = NoList THEN <<>> ELSE pt.to,
     threadId |-> OrElse(pt.thid, ""),
     parentThreadId |-> OrElse(pt.pthid, ""),
     body |-> CoalesceBody(pt.body, NullBody),
     bodyRaw |-> pt.body]

NoMsg == parseDIDComm(Plaintext(ABSENT, ABSENT, ABSENT, ABSENT, AbsentBody))

\* ------------------------------------------------------------------ channel.ts
NoRef == 0       \* joinRef "" / a null ref on a frame

NoChan ==
    [sock |-> "NONE",             \* readyState of the WebSocket made by connect()
     ws |-> FALSE,                \* this.ws # null
     readLoop |-> FALSE,          \* setupReadLoop() attached its listeners
     refCounter |-> 0,
     joinRef |-> NoRef,
     pendingJoinResolve |-> FALSE,
     closed |-> FALSE,
     heartbeatTimer |-> FALSE,
     assignedDIDVal |-> "",
     protocols |-> {},            \* the protocols argument of connect()
     signal |-> "none",           \* connect()'s signal: "none" | "live" | "aborted"
     reason |-> NULL,             \* signal.reason once aborted
     connAbort |-> FALSE,         \* connect()'s onAbort listener is attached
     joinAbort |-> FALSE,         \* join()'s onAbort listener is attached
     joinP |-> "none",            \* join()'s promise
     connP |-> "none",            \* connect()'s promise
     connErr |-> <<>>,            \* what connect()'s promise rejected with
     replyReason |-> ABSENT,      \* response.reason of the join reply that settled join()
     replyRef |-> NoRef,          \* history: the ref of that reply
     replyStatus |-> ABSENT,      \* history: the status of that reply
     cont |-> "none"]             \* Layr8Client.connect after its await: "waiting" | "done"

Topic == <<"plugins:", cfgAgentDid>>

NoPayload ==
    [id |-> "", type |-> "", from |-> "", to |-> <<>>, thid |-> ABSENT, pthid |-> ABSENT,
     body |-> AbsentBody, ids |-> <<>>, payload_types |-> {}]

Frame(c, joinRef, ref, topic, event, payload) ==
    [ch |-> c, joinRef |-> joinRef, ref |-> ref, topic |-> topic, event |-> event,
     payload |-> payload]

\* ws.close(): a connecting socket aborts its handshake, an open one starts closing
wsClose(sock) ==
    CASE sock = "CONNECTING" -> "CLOSED"
      [] sock = "OPEN" -> "CLOSING"
      [] OTHER -> sock

\* signal.reason ?? new Error("aborted")
AbortReason(reason) == IF reason \in {NULL, ABSENT} THEN "Error: aborted" ELSE reason

\* new ConnectionError(url, reason).message
ConnectionError(url, reason) == <<"connection error [", url, "]: ">> \o reason

\* a nextRef that hands out the same ref again
nextRefAgain(ch) == ch

\* nextRef(): the counter is incremented and its value is the ref
nextRef(ch) == [ch EXCEPT !.refCounter = @ + 1]

\* writeMsg throws NotConnectedError unless this.ws is set and open
writeMsgOk(ch) == ch.ws /\ ch.sock = "OPEN"

\* send(event, payload): the ref is taken before writeMsg can throw
ChannelSend(c, ch, w, event, payload) ==
    LET ch1 == nextRef(ch) IN
    IF writeMsgOk(ch1)
    THEN [ch |-> ch1, ok |-> TRUE,
          wire |-> Append(w, Frame(c, NoRef, ch1.refCounter, Topic, event, payload))]
    ELSE [ch |-> ch1, ok |-> FALSE, wire |-> w]

sendAck(c, ch, w, ids) == ChannelSend(c, ch, w, "ack", [NoPayload EXCEPT !.ids = ids])

\* ------------------------------------------------------------------ handler registry
MsgTypes ==
    {ReqType, RespType, ProblemReportType, BareType, EchoProtocol}
HandledTypes == {ReqType}      \* the types handle() is called with

\* handler functions callers register
HandlerFns == {"fn1", "fn2"}

\* a HandlerEntry {fn, manualAck}; NoEntry: what Map.get returns for a missing key
HandlerEntry(fn, manualAck) == [fn |-> fn, manualAck |-> manualAck]
NoEntry == HandlerEntry(ABSENT, FALSE)

\* HandlerRegistry.register: the entry set when the type has none
register(handlers, msgType, fn, manualAck) ==
    [handlers EXCEPT ![msgType] = HandlerEntry(fn, manualAck)]

\* a lookup that falls back to some registered handler for a type that has none
lookupFallback(msgType) ==
    IF msgType \in DOMAIN registry /\ registry[msgType] # NoEntry THEN registry[msgType]
    ELSE IF \E t \in DOMAIN registry : registry[t] # NoEntry
    THEN registry[CHOOSE t \in DOMAIN registry : registry[t] # NoEntry]
    ELSE NoEntry

\* HandlerRegistry.lookup: Map.get on the exact type string
lookup(msgType) == IF msgType \in DOMAIN registry THEN registry[msgType] ELSE NoEntry

\* the strings deriveProtocol can return for the types above
ProtocolStrings ==
    {EchoProtocol, "https://layr8.io/protocols/echo",
     "https://didcomm.org/report-problem/2.0"}

\* a string as the pieces between its "/" characters
Segments(str) ==
    CASE str = ReqType ->
             <<"https:", "", "layr8.io", "protocols", "echo", "1.0", "request">>
      [] str = RespType ->
             <<"https:", "", "layr8.io", "protocols", "echo", "1.0", "response">>
      [] str = EchoProtocol ->
             <<"https:", "", "layr8.io", "protocols", "echo", "1.0">>
      [] str = "https://layr8.io/protocols/echo" ->
             <<"https:", "", "layr8.io", "protocols", "echo">>
      [] str = ProblemReportType ->
             <<"https:", "", "didcomm.org", "report-problem", "2.0", "problem-report">>
      [] str = "https://didcomm.org/report-problem/2.0" ->
             <<"https:", "", "didcomm.org", "report-problem", "2.0">>
      [] str = BareType -> <<"basicmessage">>

\* the string made of these pieces
Joined(segs) == CHOOSE str \in MsgTypes \cup ProtocolStrings : Segments(str) = segs

\* a deriveProtocol that returns the type as it is
deriveProtocolWhole(msgType) == msgType

\* deriveProtocol: lastIndexOf("/") is -1 when the string is one piece;
\* slice(0, idx) drops the last piece and the "/" before it
deriveProtocol(msgType) ==
    LET segs == Segments(msgType) IN
    IF Len(segs) = 1 THEN msgType
    ELSE Joined(SubSeq(segs, 1, Len(segs) - 1))

\* HandlerRegistry.protocols()
protocols == {deriveProtocol(t) : t \in {u \in DOMAIN registry : registry[u] # NoEntry}}

\* ------------------------------------------------------------------ requests
AllThreads == {t \in CallerThreads : t # ""} \cup {Uuid[k] : k \in 1..Len(Uuid)}

\* what a request's promise settled with: the response, a ProblemReportError
\* (msg: the report it was made from) or another error
NoResult == [kind |-> "none", msg |-> NoMsg, code |-> "", comment |-> "", error |-> ""]
NoReq ==
    [state |-> "none",        \* the promise: "none" | "pending" | "resolved" | "rejected"
     threadId |-> "",
     index |-> ABSENT,        \* the payload it sent
     signal |-> "none",       \* opts.signal as passed: "none" | "live" | "aborted"
     reason |-> NULL,         \* signal.reason once the signal has aborted
     listener |-> FALSE,      \* its onAbort listener is attached to the signal
     replied |-> FALSE,       \* history: the remote side's reply to it was delivered
     fired |-> FALSE,         \* history: its signal was seen to fire
     settles |-> 0,           \* calls of resolve/reject made on the promise
     afterClose |-> FALSE,    \* issued after close()
     result |-> NoResult]

\* ------------------------------------------------------------------ initial state
\* the client after its constructor, for a configuration with one of `dids`
InitWith(dids) ==
    /\ connected = FALSE
    /\ isClosed = FALSE
    /\ channel = 0
    /\ cfgAgentDid \in dids
    /\ agentDid = cfgAgentDid
    /\ pending = [t \in AllThreads |-> 0]
    /\ registry = [t \in MsgTypes |-> NoEntry]
    /\ req = [r \in Reqs |-> NoReq]
    /\ nreq = 0
    /\ idCounter = 0
    /\ chan = [c \in Chans |-> NoChan]
    /\ wire = <<>>
    /\ tasks = <<>>
    /\ emitted = {}
    /\ inbox = [c \in Chans |-> [frames |-> <<>>, read |-> 0]]

Init == InitWith({"", "did:web:alice"})

\* ------------------------------------------------------------------ lifecycle errors
\* the error handle() throws before it registers ("none": it goes on)
handleThrows == IF connected THEN "AlreadyConnectedError" ELSE "none"

\* the error connect() throws before it creates a channel
connectThrows ==
    IF connected THEN "AlreadyConnectedError"
    ELSE IF isClosed THEN "ClientClosedError"
    ELSE "none"

\* the error send() and request() throw before they fill the message
sendThrows == IF ~connected \/ channel = 0 THEN "NotConnectedError" ELSE "none"

\* ------------------------------------------------------------------ connect
\* the catch block of connect()'s open handler: ws.close(); reject(err)
JoinFailed(ch, err) ==
    [ch EXCEPT !.joinP = "rejected",
               !.sock = wsClose(@),
               !.connP = IF @ = "pending" THEN "rejected" ELSE @,
               !.connErr = IF ch.connP = "pending" THEN err ELSE @]

\* Layr8Client.connect(signal) up to its await, with PhoenixChannel.connect's
\* promise executor: the WebSocket is created and the listeners attached
ClientConnect(c, sig, reason) ==
    /\ chan[c].connP = "none"
    /\ \A d \in Chans : d < c => chan[d].connP # "none"
    /\ IF connectThrows # "none"
       THEN UNCHANGED vars        \* AlreadyConnectedError / ClientClosedError
       ELSE /\ chan' = [chan EXCEPT ![c] =
                    IF sig = "aborted"
                    THEN [@ EXCEPT !.signal = sig, !.reason = reason,
                                   !.protocols = protocols,
                                   !.connP = "rejected",
                                   !.connErr = <<AbortReason(reason)>>,
                                   !.cont = "waiting"]
                    ELSE [@ EXCEPT !.signal = sig,
                                   !.protocols = protocols,
                                   !.sock = "CONNECTING",
                                   !.connAbort = (sig = "live"),
                                   !.connP = "pending",
                                   !.cont = "waiting"]]
            /\ UNCHANGED <<clientVars, pending, registry, req, nreq, idCounter, wire,
                           tasks, emitted>>

\* the socket's "open" event: connect()'s open handler, which runs join()
SocketOpen(c) ==
    /\ chan[c].sock = "CONNECTING"
    /\ LET ch0 == [chan[c] EXCEPT !.sock = "OPEN", !.connAbort = FALSE, !.ws = TRUE,
                                  !.readLoop = TRUE, !.heartbeatTimer = TRUE]
           ch1 == nextRef(ch0)
           ref == ch1.refCounter
           ch2 == [ch1 EXCEPT !.joinRef = ref]
           join == Frame(c, ref, ref, Topic, "phx_join",
                         [NoPayload EXCEPT !.payload_types = ch2.protocols])
       IN  IF ch2.signal = "aborted"
           THEN /\ chan' = [chan EXCEPT ![c] = JoinFailed(ch2, <<AbortReason(ch2.reason)>>)]
                /\ wire' = wire
           ELSE IF writeMsgOk(ch2)
           THEN /\ chan' = [chan EXCEPT ![c] =
                        [ch2 EXCEPT !.joinAbort = (ch2.signal = "live"),
                                    !.pendingJoinResolve = TRUE,
                                    !.joinP = "pending"]]
                /\ wire' = Append(wire, join)
           ELSE /\ chan' = [chan EXCEPT ![c] =
                        JoinFailed([ch2 EXCEPT !.joinAbort = (ch2.signal = "live"),
                                               !.pendingJoinResolve = TRUE],
                                   <<"client is not connected">>)]
                /\ wire' = wire
    /\ UNCHANGED <<clientVars, pending, registry, req, nreq, idCounter, tasks, emitted>>

\* connect()'s signal fires: whichever onAbort listener is attached runs
AbortConnect(c, reason) ==
    /\ chan[c].signal = "live"
    /\ LET ch0 == [chan[c] EXCEPT !.signal = "aborted", !.reason = reason]
           err == <<AbortReason(reason)>>
       IN  chan' = [chan EXCEPT ![c] =
              IF ch0.connAbort
              THEN [ch0 EXCEPT !.connAbort = FALSE,
                               !.sock = wsClose(@),
                               !.connP = IF @ = "pending" THEN "rejected" ELSE @,
                               !.connErr = IF ch0.connP = "pending" THEN err ELSE @]
              ELSE IF ch0.joinAbort
              THEN IF ch0.joinP = "pending"
                   THEN JoinFailed([ch0 EXCEPT !.joinAbort = FALSE,
                                               !.pendingJoinResolve = FALSE], err)
                   ELSE [ch0 EXCEPT !.joinAbort = FALSE, !.pendingJoinResolve = FALSE]
              ELSE ch0]
    /\ UNCHANGED <<clientVars, pending, registry, req, nreq, idCounter, wire, tasks,
                   emitted>>

\* the callbacks.onDisconnect the client passes: this.emit("disconnect", err)
onDisconnect(c, why) == emitted \cup {[event |-> "disconnect", why |-> why,
                                       closed |-> chan[c].closed]}

\* the socket's "error" event followed by its "close" event
SocketError(c) ==
    /\ chan[c].sock \in {"CONNECTING", "OPEN", "CLOSING"}
    /\ chan' = [chan EXCEPT ![c] =
           [@ EXCEPT !.sock = "CLOSED",
                     !.connAbort = FALSE,
                     !.connP = IF @ = "pending" THEN "rejected" ELSE @,
                     !.connErr = IF chan[c].connP = "pending"
                                 THEN ConnectionError(WsUrl, <<"socket error">>) ELSE @]]
    /\ emitted' = IF chan[c].readLoop /\ ~chan[c].closed
                  THEN onDisconnect(c, "error") \cup onDisconnect(c, "WebSocket closed")
                  ELSE emitted
    /\ UNCHANGED <<clientVars, pending, registry, req, nreq, idCounter, wire, tasks>>

\* the socket's "close" event: the peer closed it, or the closing handshake ended
SocketClose(c) ==
    /\ chan[c].sock \in {"OPEN", "CLOSING"}
    /\ chan' = [chan EXCEPT ![c].sock = "CLOSED"]
    /\ emitted' = IF chan[c].readLoop /\ ~chan[c].closed
                  THEN onDisconnect(c, "WebSocket closed")
                  ELSE emitted
    /\ UNCHANGED <<clientVars, pending, registry, req, nreq, idCounter, wire, tasks>>

\* join reply payloads the remote side sends
JoinStatuses == {"ok", "error"}
JoinDids == {ABSENT, "did:web:node:test"}
JoinReasons == {ABSENT, "protocols_already_bound"}

\* pendingJoinResolve(payload), then the continuation of connect()'s open handler
joinResolve(ch, status, did) ==
    LET ch0 == [ch EXCEPT !.joinAbort = FALSE] IN
    IF status # "ok"
    THEN JoinFailed(ch0, ConnectionError(WsUrl, <<"join rejected: ", status>>))
    ELSE [ch0 EXCEPT !.assignedDIDVal = OrElse(did, @),
                     !.joinP = "resolved",
                     !.connP = IF @ = "pending" THEN "resolved" ELSE @]

\* a handleInbound that takes any phx_reply for the reply to the join
PhxReplyAnyRef(c, ref, status, did, reason) ==
    /\ chan[c].readLoop
    /\ chan[c].sock \in {"OPEN", "CLOSING"}
    /\ chan' = [chan EXCEPT ![c] =
           IF chan[c].pendingJoinResolve
           THEN joinResolve([@ EXCEPT !.pendingJoinResolve = FALSE,
                                      !.replyReason = reason,
                                      !.replyRef = ref,
                                      !.replyStatus = status], status, did)
           ELSE @]
    /\ UNCHANGED <<clientVars, pending, registry, req, nreq, idCounter, wire, tasks,
                   emitted>>

\* handleInbound's first case, for a phx_reply frame
handlePhxReply(c, ref, status, did, reason) ==
    /\ chan' = [chan EXCEPT ![c] =
           IF chan[c].pendingJoinResolve /\ ref = chan[c].joinRef
           THEN joinResolve([@ EXCEPT !.pendingJoinResolve = FALSE,
                                      !.replyReason = reason,
                                      !.replyRef = ref,
                                      !.replyStatus = status], status, did)
           ELSE @]
    /\ UNCHANGED <<clientFields, pending, registry, req, nreq, idCounter, wire, tasks,
                   emitted>>

\* an inbound phx_reply frame, read as soon as the remote side wrote it
PhxReply(c, ref, status, did, reason) ==
    /\ chan[c].readLoop
    /\ chan[c].sock \in {"OPEN", "CLOSING"}
    /\ handlePhxReply(c, ref, status, did, reason)
    /\ UNCHANGED inbox

\* a connect() that keeps the channel of a failed attempt
ClientConnectContinueAdopts(c) ==
    /\ chan[c].cont = "waiting"
    /\ chan[c].connP \in {"resolved", "rejected"}
    /\ chan' = [chan EXCEPT ![c].cont = "done"]
    /\ agentDid' = IF agentDid = "" /\ chan[c].assignedDIDVal # ""
                   THEN chan[c].assignedDIDVal ELSE agentDid
    /\ channel' = c
    /\ connected' = (chan[c].connP = "resolved")
    /\ UNCHANGED <<isClosed, cfgAgentDid, pending, registry, req, nreq, idCounter, wire,
                   tasks, emitted, inbox>>

\* Layr8Client.connect after `await channel.connect(...)`
ClientConnectContinue(c) ==
    /\ chan[c].cont = "waiting"
    /\ chan[c].connP \in {"resolved", "rejected"}
    /\ chan' = [chan EXCEPT ![c].cont = "done"]
    /\ IF chan[c].connP = "resolved"
       THEN /\ agentDid' = IF agentDid = "" /\ chan[c].assignedDIDVal # ""
                           THEN chan[c].assignedDIDVal ELSE agentDid
            /\ channel' = c
            /\ connected' = TRUE
       ELSE UNCHANGED <<agentDid, channel, connected>>
    /\ UNCHANGED <<isClosed, cfgAgentDid, pending, registry, req, nreq, idCounter, wire,
                   tasks, emitted, inbox>>

\* ------------------------------------------------------------------ close, heartbeat
\* PhoenixChannel.close()
ChannelClose(c, ch, w) ==
    IF ch.closed THEN [ch |-> ch, wire |-> w]
    ELSE LET ch0 == [ch EXCEPT !.closed = TRUE, !.heartbeatTimer = FALSE] IN
         IF ~ch0.ws THEN [ch |-> ch0, wire |-> w]
         ELSE LET ch1 == nextRef(ch0)
                  leave == Frame(c, NoRef, ch1.refCounter, Topic, "phx_leave", NoPayload)
              IN  [ch |-> [ch1 EXCEPT !.sock = wsClose(@), !.ws = FALSE],
                   wire |-> IF writeMsgOk(ch1) THEN Append(w, leave) ELSE w]

\* a close() that leaves the table as it is
closePendingKeeps(p) == p

\* close()'s loop over this.pending: every entry is deleted, none is called
closePending(p) == [t \in DOMAIN p |-> 0]

\* Layr8Client.close()
ClientClose ==
    IF isClosed THEN UNCHANGED vars
    ELSE /\ isClosed' = TRUE
         /\ connected' = FALSE
         /\ channel' = 0
         /\ IF channel # 0
            THEN LET r == ChannelClose(channel, chan[channel], wire) IN
                 /\ chan' = [chan EXCEPT ![channel] = r.ch]
                 /\ wire' = r.wire
            ELSE UNCHANGED <<chan, wire>>
         /\ pending' = closePending(pending)
         /\ UNCHANGED <<agentDid, cfgAgentDid, registry, req, nreq, idCounter, tasks,
                        emitted, inbox>>

\* one tick of the interval timer startHeartbeat() set
HeartbeatTick(c) ==
    /\ chan[c].heartbeatTimer
    /\ chan[c].refCounter < MaxRef
    /\ IF chan[c].closed \/ ~chan[c].ws
       THEN UNCHANGED <<chan, wire>>
       ELSE LET ch1 == nextRef(chan[c]) IN
            /\ chan' = [chan EXCEPT ![c] = ch1]
            /\ wire' = IF writeMsgOk(ch1)
                       THEN Append(wire, Frame(c, NoRef, ch1.refCounter, <<"phoenix">>,
                                               "heartbeat", NoPayload))
                       ELSE wire
    /\ UNCHANGED <<clientVars, pending, registry, req, nreq, idCounter, tasks, emitted>>

\* ------------------------------------------------------------------ handle, send
\* a handle() whose register() replaces the entry of a registered type
handleReplaces(msgType, fn, manualAck) ==
    IF handleThrows # "none" THEN UNCHANGED vars
    ELSE /\ registry' = register(registry, msgType, fn, manualAck)
         /\ UNCHANGED <<clientVars, pending, req, nreq, idCounter, chan, wire, tasks,
                        emitted>>

\* Layr8Client.handle(msgType, fn, opts) with HandlerRegistry.register
handle(msgType, fn, manualAck) ==
    IF handleThrows # "none" THEN UNCHANGED vars          \* AlreadyConnectedError
    ELSE IF registry[msgType] # NoEntry THEN UNCHANGED vars  \* duplicate registration
    ELSE /\ registry' = register(registry, msgType, fn, manualAck)
         /\ UNCHANGED <<clientVars, pending, req, nreq, idCounter, chan, wire, tasks,
                        emitted>>

\* Layr8Client.sendMessage on a filled message: [ch, wire, ok]; with no channel
\* it throws NotConnectedError before anything is written
sendMessage(chs, w, msg) ==
    IF channel = 0 THEN [chan |-> chs, wire |-> w, ok |-> FALSE]
    ELSE LET r == ChannelSend(channel, chs[channel], w, "message", marshalDIDComm(msg))
         IN  [chan |-> [chs EXCEPT ![channel] = r.ch], wire |-> r.wire, ok |-> r.ok]

\* Layr8Client.send(msg)
ClientSend(threadId) ==
    IF sendThrows # "none" THEN UNCHANGED vars           \* NotConnectedError
    ELSE /\ chan[channel].refCounter < MaxRef
         /\ idCounter < Len(Uuid)
         /\ LET m == Partial("", ReqType, "", <<Bob>>, threadId, "", EmptyObject)
                r == sendMessage(chan, wire, fillMessage(m, idCounter))
            IN  /\ chan' = r.chan
                /\ wire' = r.wire
                /\ idCounter' = idCounter + fillIds(m)
         /\ UNCHANGED <<clientVars, pending, registry, req, nreq, tasks, emitted>>

\* ------------------------------------------------------------------ request
\* the payload of the r-th request (callers send distinct payloads)
Index == <<"i1", "i2", "i3", "i4">>

\* resolve(...) / reject(...) of a request's promise: only the first call settles it
settle(rq, state, result) ==
    [rq EXCEPT !.settles = @ + 1,
               !.state = IF @ = "pending" THEN state ELSE @,
               !.result = IF rq.state = "pending" THEN result ELSE @]

\* a cleanup() that leaves the table as it is
cleanupKeeps(p, threadId) == p

\* cleanup() of request(): this.pending.delete(internal.threadId)
cleanup(p, threadId) == [p EXCEPT ![threadId] = 0]

\* Layr8Client.request(msg, opts)
Request(threadId, parentThread, sig, reason) ==
    /\ nreq < MaxReq
    /\ IF sendThrows # "none" THEN UNCHANGED vars           \* NotConnectedError
       ELSE /\ idCounter + 2 <= Len(Uuid)
            /\ LET r == nreq + 1
                   m == Partial("", ReqType, "", <<Bob>>, threadId, "",
                                Body("object", ABSENT, ABSENT, Index[r]))
                   m0 == fillMessage(m, idCounter)
                   k1 == idCounter + fillIds(m)
                   gen == m0.threadId = ""
                   m1 == IF gen THEN [m0 EXCEPT !.threadId = generateId(k1)] ELSE m0
                   m2 == IF parentThread # ""
                         THEN [m1 EXCEPT !.parentThreadId = parentThread] ELSE m1
                   T == m2.threadId
                   rq == [NoReq EXCEPT !.state = "pending", !.threadId = T,
                                       !.index = Index[r], !.signal = sig,
                                       !.reason = IF sig = "aborted" THEN reason ELSE NULL,
                                       !.afterClose = isClosed]
                   s == sendMessage(chan, wire, m2)
               IN  /\ nreq' = r
                   /\ idCounter' = IF gen THEN k1 + 1 ELSE k1
                   /\ IF sig = "aborted"
                      THEN /\ req' = [req EXCEPT ![r] =
                                  settle(rq, "rejected",
                                         [NoResult EXCEPT !.kind = "abort",
                                                          !.error = AbortReason(reason)])]
                           /\ UNCHANGED <<pending, chan, wire>>
                      ELSE /\ chan' = s.chan
                           /\ wire' = s.wire
                           /\ IF s.ok
                              THEN /\ pending' = [pending EXCEPT ![T] = r]
                                   /\ req' = [req EXCEPT ![r] =
                                          [rq EXCEPT !.listener = (sig = "live")]]
                              ELSE /\ pending' = cleanup([pending EXCEPT ![T] = r], T)
                                   /\ req' = [req EXCEPT ![r] =
                                          settle(rq, "rejected",
                                                 [NoResult EXCEPT !.kind = "error",
                                                     !.error = "NotConnectedError"])]
            /\ UNCHANGED <<clientVars, registry, tasks, emitted>>

\* the signal of request r fires: its onAbort listener runs if it is still
\* attached (it is removed when it has run and by cleanup()). `note` records
\* the firing in the request's history.
AbortRequest(r, reason, note) ==
    /\ req[r].signal = "live"
    /\ ~req[r].fired
    /\ IF req[r].listener
       THEN /\ pending' = cleanup(pending, req[r].threadId)
            /\ req' = [req EXCEPT ![r] =
                   settle([@ EXCEPT !.listener = FALSE, !.reason = reason, !.fired = note],
                          "rejected",
                          [NoResult EXCEPT !.kind = "abort", !.error = AbortReason(reason)])]
       ELSE /\ req' = [req EXCEPT ![r].fired = note]
            /\ UNCHANGED pending
    /\ UNCHANGED <<clientVars, registry, nreq, idCounter, chan, wire, tasks, emitted>>

\* a callback that takes the defaults for every falsy field (|| for ??)
requestCallbackFalsy(rq, resp) ==
    LET rq0 == [rq EXCEPT !.listener = FALSE]
        body == CoalesceBody(resp.bodyRaw, resp.body)
        code == IF body.kind = "object" THEN OrElse(body.code, "unknown") ELSE "unknown"
        comment == IF body.kind = "object" THEN OrElse(body.comment, "unknown error")
                   ELSE "unknown error"
    IN  IF resp.type = ProblemReportType
        THEN settle(rq0, "rejected",
                    [NoResult EXCEPT !.kind = "problem", !.msg = resp, !.code = code,
                                     !.comment = comment])
        ELSE settle(rq0, "resolved", [NoResult EXCEPT !.kind = "message", !.msg = resp])

\* the callback request() stored in this.pending, called with the response
requestCallback(rq, resp) ==
    LET rq0 == [rq EXCEPT !.listener = FALSE]
        body == CoalesceBody(resp.bodyRaw, resp.body)
        code == IF body.kind = "object" THEN Coalesce(body.code, "unknown") ELSE "unknown"
        comment == IF body.kind = "object" THEN Coalesce(body.comment, "unknown error")
                   ELSE "unknown error"
    IN  IF resp.type = ProblemReportType
        THEN settle(rq0, "rejected",
                    [NoResult EXCEPT !.kind = "problem", !.msg = resp, !.code = code,
                                     !.comment = comment])
        ELSE settle(rq0, "resolved", [NoResult EXCEPT !.kind = "message", !.msg = resp])

\* ------------------------------------------------------------------ inbound messages
\* what the remote side sends as the payload of a "message" frame: it can echo
\* the thread identifiers of the requests it was sent, or use one of its own
SentThreads == {ABSENT} \cup {req[r].threadId : r \in 1..nreq}
ReportBodies ==
    {AbsentBody, EmptyObject,
     Body("object", "e.p.xfer.cant-process", "database unavailable", ABSENT),
     Body("object", "", NULL, ABSENT)}
\* the echo of request r: its thread identifier and its payload
EchoOf(r) ==
    Plaintext("m1", RespType, Bob, req[r].threadId,
              Body("object", ABSENT, ABSENT, req[r].index))
\* replies: problem reports and echo responses
Replies ==
    {Plaintext("m1", ProblemReportType, Bob, thid, body) :
        thid \in SentThreads, body \in ReportBodies}
    \cup {EchoOf(r) : r \in 1..nreq}
\* and messages of a type handlers are registered for
Plaintexts ==
    Replies \cup {Plaintext("m1", ReqType, Bob, thid, EmptyObject) : thid \in SentThreads}

\* a handler invocation: runHandler(entry.fn, msg)
Task(msg, manual, start) ==
    [msg |-> msg,
     manualAck |-> manual,    \* msg.ackFn is set
     state |-> "running",     \* "running" | "done" | "unhandled" (the task rejected)
     start |-> start,         \* history: frames written when the handler was invoked
     acks |-> 0,              \* history: calls of msg.ackFn the handler made
     how |-> "running",       \* history: "response" | "null" | "throw"
     out |-> 0,               \* history: frames written once its completion wrote one
     resp |-> NoMsg,          \* history: the response the handler returned
     sent |-> NoMsg]          \* history: the internal message sent for the response

\* a dispatch that starts the handler without writing the automatic ack
dispatchNoAck(msg) ==
    LET entry == lookup(msg.type) IN
    IF entry = NoEntry THEN UNCHANGED <<chan, wire, tasks>>
    ELSE /\ Len(tasks) < MaxTask
         /\ tasks' = Append(tasks, Task(msg, entry.manualAck, Len(wire)))
         /\ UNCHANGED <<chan, wire>>

\* Layr8Client.handleInboundMessage from the registry lookup on: the ack and
\* the start of the handler. An ack that cannot be written throws out of it.
\* `cap`: the handler invocations one behaviour has room for.
dispatchUpTo(msg, cap) ==
    LET entry == lookup(msg.type) IN
    IF entry = NoEntry THEN UNCHANGED <<chan, wire, tasks>>
    ELSE /\ Len(tasks) < cap
         /\ IF ~entry.manualAck
            THEN IF channel = 0 THEN UNCHANGED <<chan, wire, tasks>>     \* TypeError
                 ELSE LET r == sendAck(channel, chan[channel], wire, <<msg.id>>) IN
                      /\ chan' = [chan EXCEPT ![channel] = r.ch]
                      /\ wire' = r.wire
                      /\ tasks' = IF r.ok THEN Append(tasks, Task(msg, FALSE, Len(r.wire)))
                                  ELSE tasks
            ELSE /\ tasks' = Append(tasks, Task(msg, TRUE, Len(wire)))
                 /\ UNCHANGED <<chan, wire>>

\* the dispatch of a message read as soon as it was written
dispatch(msg) == dispatchUpTo(msg, MaxTask)

\* every frame read can start a handler
TaskRoom == MaxChan * MaxFrame

\* a dispatch that starts the handler whether or not the automatic ack was
\* written
dispatchReadAnyway(msg) ==
    LET entry == lookup(msg.type) IN
    IF entry = NoEntry THEN UNCHANGED <<chan, wire, tasks>>
    ELSE /\ Len(tasks) < TaskRoom
         /\ IF ~entry.manualAck /\ channel # 0
            THEN LET r == sendAck(channel, chan[channel], wire, <<msg.id>>) IN
                 /\ chan' = [chan EXCEPT ![channel] = r.ch]
                 /\ wire' = r.wire
                 /\ tasks' = Append(tasks, Task(msg, FALSE, Len(r.wire)))
            ELSE /\ tasks' = Append(tasks, Task(msg, entry.manualAck, Len(wire)))
                 /\ UNCHANGED <<chan, wire>>

\* the dispatch of a message the read loop took from the socket
dispatchRead(msg) == dispatchUpTo(msg, TaskRoom)

\* a handleInboundMessage that routes a correlated reply to the handlers too
InboundMessageAlsoDispatches(c, pt, mark) ==
    /\ chan[c].readLoop
    /\ chan[c].sock \in {"OPEN", "CLOSING"}
    /\ LET msg == parseDIDComm(pt)
           r == IF msg.threadId # "" THEN pending[msg.threadId] ELSE 0
       IN  /\ dispatch(msg)
           /\ IF r # 0
              THEN /\ pending' = cleanup(cleanup(pending, msg.threadId), req[r].threadId)
                   /\ req' = [req EXCEPT ![r] = requestCallback(@, msg)]
              ELSE UNCHANGED <<pending, req>>
    /\ UNCHANGED <<clientVars, registry, nreq, idCounter, emitted>>

\* Layr8Client.handleInboundMessage(payload) for a payload parseDIDComm takes,
\* with plaintext pt. `mark`: the requests the remote side sent this message in
\* reply to (history only); `queued`: the read loop took it from the socket.
handleInboundMessage(pt, mark, queued) ==
    /\ LET msg == parseDIDComm(pt)
           r == IF msg.threadId # "" /\ msg.threadId \in DOMAIN pending
                THEN pending[msg.threadId] ELSE 0
           noted == [q \in Reqs |-> IF q \in mark THEN [req[q] EXCEPT !.replied = TRUE]
                                    ELSE req[q]]
       IN  IF r # 0
           THEN /\ pending' = cleanup(cleanup(pending, msg.threadId), req[r].threadId)
                /\ req' = [noted EXCEPT ![r] = requestCallback(@, msg)]
                /\ UNCHANGED <<chan, wire, tasks>>
           ELSE /\ IF queued THEN dispatchRead(msg) ELSE dispatch(msg)
                /\ req' = noted
                /\ UNCHANGED pending
    /\ UNCHANGED <<clientFields, registry, nreq, idCounter, emitted>>

\* an inbound "message" frame, read as soon as the remote side wrote it:
\* handleInbound's second case, which calls handleInboundMessage
InboundMessage(c, pt, mark) ==
    /\ chan[c].readLoop
    /\ chan[c].sock \in {"OPEN", "CLOSING"}
    /\ handleInboundMessage(pt, mark, FALSE)
    /\ UNCHANGED inbox

\* an inbound frame that drops out: not a 5-element array, a "message" payload
\* parseDIDComm throws on, or an event handleInbound has no case for
InboundDropped(c) ==
    /\ chan[c].readLoop
    /\ chan[c].sock \in {"OPEN", "CLOSING"}
    /\ UNCHANGED vars

\* a disconnect callback that also marks the client unconnected
handlePhxErrorDisconnects(c, event) ==
    /\ emitted' = onDisconnect(c, event)
    /\ connected' = FALSE
    /\ UNCHANGED <<isClosed, channel, agentDid, cfgAgentDid, pending, registry, req, nreq,
                   idCounter, chan, wire, tasks>>

\* handleInbound's last case, for a phx_error or phx_close frame
handlePhxError(c, event) ==
    /\ emitted' = onDisconnect(c, event)
    /\ UNCHANGED <<clientFields, pending, registry, req, nreq, idCounter, chan, wire, tasks>>

\* an inbound phx_error or phx_close frame, read as soon as it was written
PhxError(c, event) ==
    /\ chan[c].readLoop
    /\ chan[c].sock \in {"OPEN", "CLOSING"}
    /\ handlePhxError(c, event)
    /\ UNCHANGED inbox

\* ------------------------------------------------------------------ the read loop
\* The text of a frame the remote side writes: `json` tells what JSON.parse
\* makes of it ("invalid": it throws; "object": a value that is no array;
\* "array": an array of `len` elements), and ref, event and payload are the
\* second, fourth and fifth element, which are all handleInbound reads.
RawFrame(json, len, ref, event, payload) ==
    [json |-> json, len |-> len, ref |-> ref, event |-> event, payload |-> payload]

\* a plaintext with no key set
NoPlaintext == Plaintext(ABSENT, ABSENT, ABSENT, ABSENT, AbsentBody)

\* The fifth element: null or an object (`json`), with the keys of a join reply
\* and the plaintext of an envelope; `plaintext` tells whether that key is
\* missing ("absent"), null, an object (pt) or a string.
Payload(json, status, did, reason, plaintext, pt) ==
    [json |-> json, status |-> status, did |-> did, reason |-> reason,
     plaintext |-> plaintext, pt |-> pt]
NullPayload == Payload("null", ABSENT, ABSENT, ABSENT, "absent", NoPlaintext)
EmptyPayload == Payload("object", ABSENT, ABSENT, ABSENT, "absent", NoPlaintext)
Envelope(pt) == Payload("object", ABSENT, ABSENT, ABSENT, "object", pt)

\* frames of each kind
MessageFrame(pt) == RawFrame("array", 5, NoRef, "message", Envelope(pt))
ReplyFrame(ref, status, did) ==
    RawFrame("array", 5, ref, "phx_reply",
             Payload("object", status, did, ABSENT, "absent", NoPlaintext))
EventFrame(event) == RawFrame("array", 5, NoRef, event, EmptyPayload)

\* unmarshalPhoenixMsg throws: JSON.parse throws, or the value is not an array
\* of exactly 5 elements
unmarshalThrows(data) == data.json # "array" \/ data.len # 5

\* parseDIDComm throws a TypeError: it reads env.plaintext of a null payload,
\* or pt.id of a plaintext that is missing or null
parseDIDCommThrows(payload) ==
    payload.json = "null" \/ payload.plaintext \in {"absent", "null"}

\* the plaintext parseDIDComm reads its fields from: a string has none of them
plaintextOf(payload) == IF payload.plaintext = "object" THEN payload.pt ELSE NoPlaintext


\* an onMessage that routes a correlated reply to the handlers too
onMessageAlsoDispatches(payload) ==
    IF parseDIDCommThrows(payload) THEN UNCHANGED stateVars
    ELSE /\ LET msg == parseDIDComm(plaintextOf(payload))
                r == IF msg.threadId # "" /\ msg.threadId \in DOMAIN pending
                     THEN pending[msg.threadId] ELSE 0
            IN  /\ dispatchRead(msg)
                /\ IF r # 0
                   THEN /\ pending' = cleanup(cleanup(pending, msg.threadId),
                                              req[r].threadId)
                        /\ req' = [req EXCEPT ![r] = requestCallback(@, msg)]
                   ELSE UNCHANGED <<pending, req>>
         /\ UNCHANGED <<clientFields, registry, nreq, idCounter, emitted>>

\* callbacks.onMessage(payload): Layr8Client.handleInboundMessage with its catch
onMessage(payload) ==
    IF parseDIDCommThrows(payload) THEN UNCHANGED stateVars
    ELSE handleInboundMessage(plaintextOf(payload), {}, TRUE)

\* PhoenixChannel.handleInbound(msg): the switch on msg.event
handleInbound(c, msg) ==
    CASE msg.event = "phx_reply" ->
             handlePhxReply(c, msg.ref, msg.payload.status, msg.payload.did,
                            msg.payload.reason)
      [] msg.event = "message" -> onMessage(msg.payload)
      [] msg.event \in {"phx_error", "phx_close"} -> handlePhxError(c, msg.event)
      [] OTHER -> UNCHANGED stateVars

\* a listener that is given the newest frame first
NextFrameNewest(c) == inbox[c].frames[Len(inbox[c].frames) - inbox[c].read]

\* the frame the "message" listener of socket c is given next
NextFrame(c) == inbox[c].frames[inbox[c].read + 1]
Unread(c) == inbox[c].read < Len(inbox[c].frames)

\* the remote side writes a frame to socket c
RemoteSend(c, data) ==
    /\ chan[c].sock = "OPEN"
    /\ Len(inbox[c].frames) < MaxFrame
    /\ inbox' = [inbox EXCEPT ![c].frames = Append(@, data)]
    /\ UNCHANGED stateVars

\* a read loop for which a frame it cannot parse is fatal: it reports a
\* disconnect
ReadLoopFatal(c) ==
    /\ chan[c].readLoop
    /\ chan[c].sock \in {"OPEN", "CLOSING"}
    /\ Unread(c)
    /\ inbox' = [inbox EXCEPT ![c].read = @ + 1]
    /\ IF unmarshalThrows(NextFrame(c)) THEN handlePhxError(c, "frame error")
       ELSE handleInbound(c, NextFrame(c))

\* a read loop that waits for the running handlers: a frame read while one is
\* running is not routed
ReadLoopWaits(c) ==
    /\ chan[c].readLoop
    /\ chan[c].sock \in {"OPEN", "CLOSING"}
    /\ Unread(c)
    /\ inbox' = [inbox EXCEPT ![c].read = @ + 1]
    /\ IF unmarshalThrows(NextFrame(c))
          \/ \E t \in 1..Len(tasks) : tasks[t].state = "running"
       THEN UNCHANGED stateVars
       ELSE handleInbound(c, NextFrame(c))

\* the "message" listener setupReadLoop attached, run for the next frame of
\* socket c: unmarshalPhoenixMsg and handleInbound inside one try block whose
\* catch is empty
ReadLoop(c) ==
    /\ chan[c].readLoop
    /\ chan[c].sock \in {"OPEN", "CLOSING"}
    /\ Unread(c)
    /\ inbox' = [inbox EXCEPT ![c].read = @ + 1]
    /\ IF unmarshalThrows(NextFrame(c)) THEN UNCHANGED stateVars
       ELSE handleInbound(c, NextFrame(c))

\* ------------------------------------------------------------------ handlers
\* a problem report addressed to nobody
sendProblemReportToNobody(chs, w, original, comment, k) ==
    sendMessage(chs, w,
                [id |-> generateId(k), type |-> ProblemReportType, from |-> agentDid,
                 to |-> <<>>, threadId |-> OrElse(original.threadId, original.id),
                 parentThreadId |-> "",
                 body |-> Body("object", "e.p.xfer.cant-process", comment, ABSENT),
                 bodyRaw |-> AbsentBody])

\* sendProblemReport(original, err); FALSE when sendMessage throws out of it
sendProblemReport(chs, w, original, comment, k) ==
    LET report == [id |-> generateId(k),
                   type |-> ProblemReportType,
                   from |-> agentDid,
                   to |-> IF original.from # "" THEN <<original.from>> ELSE <<>>,
                   threadId |-> OrElse(original.threadId, original.id),
                   parentThreadId |-> "",
                   body |-> Body("object", "e.p.xfer.cant-process", comment, ABSENT),
                   bodyRaw |-> AbsentBody]
    IN  sendMessage(chs, w, report)

\* what a handler returns: null, or a response message
Responses ==
    {Partial("", RespType, "", to, threadId, "", EmptyObject) :
        to \in {<<>>, <<"did:web:carol">>}, threadId \in {"", "t2"}}

NullResponse == Partial(NULL, NULL, NULL, <<>>, NULL, NULL, NullBody)

\* runHandler after `await fn(msg)` returned resp (null or a response)
HandlerReturn(t, resp) ==
    /\ t \in 1..Len(tasks)
    /\ tasks[t].state = "running"
    /\ IF resp = NullResponse
       THEN /\ tasks' = [tasks EXCEPT ![t].state = "done", ![t].how = "null"]
            /\ UNCHANGED <<chan, wire, idCounter>>
       ELSE /\ idCounter + 2 <= Len(Uuid)
            /\ LET msg == tasks[t].msg
                   in0 == fillMessage(resp, idCounter)
                   in1 == IF Len(in0.to) = 0 /\ msg.from # ""
                          THEN [in0 EXCEPT !.to = <<msg.from>>] ELSE in0
                   in2 == IF in1.threadId = ""
                          THEN [in1 EXCEPT !.threadId = OrElse(msg.threadId, msg.id)]
                          ELSE in1
                   s == sendMessage(chan, wire, in2)
                   k == idCounter + fillIds(resp)
                   \* the catch block reports the send failure
                   p == sendProblemReport(s.chan, s.wire, msg, "client is not connected", k)
               IN  IF s.ok
                   THEN /\ chan' = s.chan
                        /\ wire' = s.wire
                        /\ idCounter' = k
                        /\ tasks' = [tasks EXCEPT ![t].state = "done",
                                                   ![t].how = "response",
                                                   ![t].out = Len(s.wire),
                                                   ![t].resp = resp,
                                                   ![t].sent = in2]
                   ELSE /\ chan' = p.chan
                        /\ wire' = p.wire
                        /\ idCounter' = k + 1
                        /\ tasks' = [tasks EXCEPT ![t].state =
                                                       IF p.ok THEN "done" ELSE "unhandled",
                                                   ![t].how = "response",
                                                   ![t].out = IF p.ok THEN Len(p.wire) ELSE 0,
                                                   ![t].resp = resp]
    /\ UNCHANGED <<clientVars, pending, registry, req, nreq, emitted>>

\* the handler throws or rejects: runHandler's catch block
HandlerThrow(t) ==
    /\ t \in 1..Len(tasks)
    /\ tasks[t].state = "running"
    /\ idCounter < Len(Uuid)
    /\ LET p == sendProblemReport(chan, wire, tasks[t].msg, "handler failed", idCounter) IN
       /\ chan' = p.chan
       /\ wire' = p.wire
       /\ idCounter' = idCounter + 1
       /\ tasks' = [tasks EXCEPT ![t].state = IF p.ok THEN "done" ELSE "unhandled",
                                  ![t].how = "throw",
                                  ![t].out = IF p.ok THEN Len(p.wire) ELSE 0]
    /\ UNCHANGED <<clientVars, pending, registry, req, nreq, emitted>>

\* an ack callback that writes nothing
HandlerAckDrops(t) ==
    /\ t \in 1..Len(tasks)
    /\ tasks[t].state = "running"
    /\ tasks[t].manualAck
    /\ tasks[t].acks < MaxAck
    /\ tasks' = [tasks EXCEPT ![t].acks = @ + 1]
    /\ UNCHANGED <<clientVars, pending, registry, req, nreq, idCounter, chan, wire, emitted>>

\* a running handler calls ack(msg): msg.ackFn(msg.id), set in manual mode only.
\* With no channel the call throws a TypeError into the handler.
HandlerAck(t) ==
    /\ t \in 1..Len(tasks)
    /\ tasks[t].state = "running"
    /\ IF ~tasks[t].manualAck THEN UNCHANGED <<chan, wire, tasks>>
       ELSE /\ tasks[t].acks < MaxAck
            /\ tasks' = [tasks EXCEPT ![t].acks = @ + 1]
            /\ IF channel = 0 THEN UNCHANGED <<chan, wire>>
               ELSE LET r == sendAck(channel, chan[channel], wire, <<tasks[t].msg.id>>) IN
                    /\ chan' = [chan EXCEPT ![channel] = r.ch]
                    /\ wire' = r.wire
    /\ UNCHANGED <<clientVars, pending, registry, req, nreq, idCounter, emitted>>

\* ------------------------------------------------------------------ specifications
\* a signal as passed to a call: not aborted yet, or aborted with a reason
SignalInputs == {<<"none", NULL>>, <<"live", NULL>>} \cup {<<"aborted", r>> : r \in SignalReasons}

\* the public operations of the client
Calls ==
    \/ \E t \in HandledTypes, manualAck \in BOOLEAN : handle(t, "fn1", manualAck)
    \/ \E c \in Chans, sig \in SignalInputs : ClientConnect(c, sig[1], sig[2])
    \/ \E c \in Chans : ClientConnectContinue(c)
    \/ ClientClose
    \/ \E threadId \in CallerThreads : ClientSend(threadId)
    \/ \E threadId \in CallerThreads, sig \in SignalInputs :
          Request(threadId, "", sig[1], sig[2])

\* abort signals and timers
Timers ==
    \/ \E c \in Chans, reason \in SignalReasons : AbortConnect(c, reason)
    \/ \E r \in Reqs, reason \in SignalReasons : AbortRequest(r, reason, FALSE)
    \/ \E c \in Chans : HeartbeatTick(c)

\* socket events and inbound frames
Socket ==
    \/ \E c \in Chans : SocketOpen(c)
    \/ \E c \in Chans : SocketError(c)
    \/ \E c \in Chans : SocketClose(c)
    \/ \E c \in Chans, ref \in 1..2, status \in JoinStatuses, did \in JoinDids,
          reason \in JoinReasons : PhxReply(c, ref, status, did, reason)
    \/ \E c \in Chans, pt \in Plaintexts : InboundMessage(c, pt, {})
    \/ \E c \in Chans : InboundDropped(c)
    \/ \E c \in Chans, event \in {"phx_error", "phx_close"} : PhxError(c, event)

\* handler tasks
Handlers ==
    \/ \E t \in 1..MaxTask, resp \in Responses \cup {NullResponse} : HandlerReturn(t, resp)
    \/ \E t \in 1..MaxTask : HandlerThrow(t)
    \/ \E t \in 1..MaxTask : HandlerAck(t)

\* the whole system
Next == Calls \/ Timers \/ Socket \/ Handlers
FullSpec == Init /\ [][Next]_vars

\* Request correlation: a client that connects without a signal, issues
\* requests with and without signals, receives messages and closes, over a
\* socket that opens, fails and closes.
RequestNext ==
    \/ ClientConnect(1, "none", NULL)
    \/ ClientConnectContinue(1)
    \/ ClientClose
    \/ \E threadId \in CallerThreads, sig \in SignalInputs :
          Request(threadId, "", sig[1], sig[2])
    \/ \E r \in Reqs, reason \in SignalReasons : AbortRequest(r, reason, FALSE)
    \/ SocketOpen(1)
    \/ SocketClose(1)
    \/ \E status \in JoinStatuses :
          PhxReply(1, chan[1].joinRef, status, "did:web:node:test", ABSENT)
    \/ \E pt \in Replies : InboundMessage(1, pt, {})

Spec == InitWith({"did:web:alice"}) /\ [][RequestNext]_vars

\* The connect sequence of one connect() call, with and without a signal: the
\* socket opening or failing, join replies, heartbeats and close().
ConnectNext ==
    \/ \E t \in HandledTypes, manualAck \in BOOLEAN : handle(t, "fn1", manualAck)
    \/ \E sig \in SignalInputs : ClientConnect(1, sig[1], sig[2])
    \/ ClientConnectContinue(1)
    \/ ClientClose
    \/ \E reason \in SignalReasons : AbortConnect(1, reason)
    \/ HeartbeatTick(1)
    \/ SocketOpen(1)
    \/ SocketError(1)
    \/ SocketClose(1)
    \/ \E ref \in 1..2, status \in JoinStatuses, did \in JoinDids,
          reason \in JoinReasons : PhxReply(1, ref, status, did, reason)
    \/ InboundDropped(1)
    \/ \E event \in {"phx_error", "phx_close"} : PhxError(1, event)

ConnectSpec == Init /\ [][ConnectNext]_vars

\* Concurrent requests that the remote side echoes: every reply carries the
\* thread identifier and the payload of the request it answers.
EchoReply(r) ==
    /\ req[r].state # "none"
    /\ ~req[r].replied
    /\ InboundMessage(1, EchoOf(r), {r})

EchoNext ==
    \/ ClientConnect(1, "none", NULL)
    \/ ClientConnectContinue(1)
    \/ \E threadId \in CallerThreads : Request(threadId, "", "none", NULL)
    \/ SocketOpen(1)
    \/ \E did \in JoinDids : PhxReply(1, chan[1].joinRef, "ok", did, ABSENT)
    \/ \E r \in Reqs : EchoReply(r)

EchoSpec == Init /\ [][EchoNext]_vars

\* The request specification with the history of replies and signals kept.
\* Fairness: the continuation of an awaited promise that has settled is run
\* by the event loop; calls and network events are not obliged to happen.
ReplyTo(r, pt) ==
    /\ req[r].state # "none"
    /\ pt.thid = req[r].threadId
    /\ InboundMessage(1, pt, {r})

FairNext ==
    \/ ClientConnect(1, "none", NULL)
    \/ ClientConnectContinue(1)
    \/ ClientClose
    \/ \E threadId \in CallerThreads, sig \in SignalInputs :
          Request(threadId, "", sig[1], sig[2])
    \/ \E r \in Reqs, reason \in SignalReasons : AbortRequest(r, reason, TRUE)
    \/ SocketOpen(1)
    \/ SocketClose(1)
    \/ PhxReply(1, chan[1].joinRef, "ok", ABSENT, ABSENT)
    \/ \E r \in Reqs, pt \in Replies : ReplyTo(r, pt)

FairSpec ==
    InitWith({"did:web:alice"}) /\ [][FairNext]_vars /\ WF_vars(ClientConnectContinue(1))

\* Handler dispatch: a client that registers a handler in either
\* acknowledgment mode, connects, issues requests, sends, receives messages of
\* the handled type and closes, while the handlers it started return, throw and
\* acknowledge.
HandlerInbound ==
    {Plaintext("m1", ReqType, Bob, thid, EmptyObject) : thid \in {ABSENT, "t1"}}
    \cup {Plaintext("m1", ReqType, ABSENT, ABSENT, EmptyObject)}

\* responses that leave both the recipients and the thread to the client, or
\* set both
HandlerResponses == {r \in Responses : (r.to = <<>>) <=> (r.threadId = "")}

HandlerNext ==
    \/ \E manualAck \in BOOLEAN : handle(ReqType, "fn1", manualAck)
    \/ ClientConnect(1, "none", NULL)
    \/ ClientConnectContinue(1)
    \/ ClientClose
    \/ SocketOpen(1)
    \/ SocketClose(1)
    \/ PhxReply(1, chan[1].joinRef, "ok", "did:web:node:test", ABSENT)
    \/ \E pt \in HandlerInbound : InboundMessage(1, pt, {})
    \/ \E t \in 1..MaxTask, resp \in HandlerResponses \cup {NullResponse} :
          HandlerReturn(t, resp)
    \/ \E t \in 1..MaxTask : HandlerThrow(t)
    \/ \E t \in 1..MaxTask : HandlerAck(t)

HandlerSpec == InitWith({"did:web:alice"}) /\ [][HandlerNext]_vars

\* Replies of a handled type: a client that registers a handler, connects and
\* issues requests, and a remote side that answers with messages of the type
\* the handler is registered for, on the threads of the requests or on none.
HandledReplies ==
    {Plaintext("m1", ReqType, Bob, thid, EmptyObject) : thid \in SentThreads}

CorrelateNext ==
    \/ \E manualAck \in BOOLEAN : handle(ReqType, "fn1", manualAck)
    \/ ClientConnect(1, "none", NULL)
    \/ ClientConnectContinue(1)
    \/ \E threadId \in CallerThreads : Request(threadId, "", "none", NULL)
    \/ SocketOpen(1)
    \/ PhxReply(1, chan[1].joinRef, "ok", "did:web:node:test", ABSENT)
    \/ \E pt \in HandledReplies : InboundMessage(1, pt, {})

CorrelateSpec == InitWith({"did:web:alice"}) /\ [][CorrelateNext]_vars

\* Transports: a client, with or without a configured identity, whose connect()
\* is called again while an earlier call is in progress, and close(). The
\* service assigns an identity of its own choice in every join reply.
AssignedDids == JoinDids \cup {"did:web:node:other"}

TransportNext ==
    \/ \E c \in Chans : ClientConnect(c, "none", NULL)
    \/ \E c \in Chans : ClientConnectContinue(c)
    \/ ClientClose
    \/ ClientSend("")
    \/ \E c \in Chans : SocketOpen(c)
    \/ \E c \in Chans : SocketClose(c)
    \/ \E c \in Chans, did \in AssignedDids :
          PhxReply(c, chan[c].joinRef, "ok", did, ABSENT)

TransportSpec == Init /\ [][TransportNext]_vars

\* The handler registry: a client on which handlers are registered, for types
\* with and without a "/" and for a type that is a prefix of another, in both
\* acknowledgment modes, before, during and after its connect().
RegistryTypes == {ReqType, RespType, BareType, EchoProtocol}

RegistryNext ==
    \/ \E t \in RegistryTypes, fn \in HandlerFns, manualAck \in BOOLEAN :
          handle(t, fn, manualAck)
    \/ ClientConnect(1, "none", NULL)
    \/ ClientConnectContinue(1)
    \/ SocketOpen(1)
    \/ PhxReply(1, chan[1].joinRef, "ok", ABSENT, ABSENT)

RegistrySpec == InitWith({"did:web:alice"}) /\ [][RegistryNext]_vars

\* The codec: a client whose handler answers inbound messages with responses
\* of every shape (identifier, recipients, thread, parent thread and body each
\* set or left out); each response is filled, encoded and written.
CodecInbound ==
    {Plaintext("m1", ReqType, Bob, "t1", EmptyObject),
     Plaintext(ABSENT, ReqType, Bob, ABSENT, EmptyObject)}

CodecResponses ==
    {Partial(id, RespType, "", to, threadId, parentThreadId, body) :
        id \in {"", "r1"}, to \in {<<>>, <<"did:web:carol", Bob>>},
        threadId \in {"", "t2"}, parentThreadId \in {"", "p1"},
        body \in {NullBody, Body("object", ABSENT, ABSENT, "i1")}}

CodecNext ==
    \/ handle(ReqType, "fn1", TRUE)
    \/ ClientConnect(1, "none", NULL)
    \/ ClientConnectContinue(1)
    \/ SocketOpen(1)
    \/ PhxReply(1, chan[1].joinRef, "ok", ABSENT, ABSENT)
    \/ \E pt \in CodecInbound : InboundMessage(1, pt, {})
    \/ \E t \in 1..MaxTask, resp \in CodecResponses : HandlerReturn(t, resp)

CodecSpec == Init /\ [][CodecNext]_vars

\* Frames: a client with an automatically acknowledged handler that connects,
\* sends, receives a message, and closes, while the heartbeat timer ticks:
\* every kind of frame is written.
FrameNext ==
    \/ handle(ReqType, "fn1", FALSE)
    \/ ClientConnect(1, "none", NULL)
    \/ ClientConnectContinue(1)
    \/ ClientClose
    \/ ClientSend("")
    \/ SocketOpen(1)
    \/ SocketClose(1)
    \/ PhxReply(1, chan[1].joinRef, "ok", ABSENT, ABSENT)
    \/ InboundMessage(1, Plaintext("m1", ReqType, Bob, ABSENT, EmptyObject), {})
    \/ HeartbeatTick(1)

FrameSpec == InitWith({"did:web:alice"}) /\ [][FrameNext]_vars

\* Failed connects: a client, with or without a configured identity, whose
\* connect() fails (the signal is aborted before the call or fires during it,
\* the socket fails, the join is rejected) or succeeds, and that registers
\* handlers, sends, connects again and closes afterwards.
RetryNext ==
    \/ handle(ReqType, "fn1", FALSE)
    \/ \E c \in Chans, sig \in {"none", "live", "aborted"} :
          /\ \A d \in Chans : chan[d].cont # "waiting"
          /\ ClientConnect(c, sig, NULL)
    \/ \E c \in Chans : ClientConnectContinue(c)
    \/ ClientClose
    \/ ClientSend("")
    \/ \E c \in Chans : AbortConnect(c, NULL)
    \/ \E c \in Chans : SocketOpen(c)
    \/ \E c \in Chans : SocketError(c)
    \/ \E c \in Chans, status \in JoinStatuses, did \in JoinDids :
          PhxReply(c, chan[c].joinRef, status, did, ABSENT)

RetrySpec == InitWith({""}) /\ [][RetryNext]_vars

\* Disconnects: a client that connects, has a request pending and is told of
\* the loss of its connection by the socket (close, error) or by the remote
\* side (phx_error, phx_close frames, read at once or through the read loop),
\* and that calls connect() again and close().
DisconnectNext ==
    \/ ClientConnect(1, "none", NULL)
    \/ ClientConnectContinue(1)
    \/ ClientClose
    \/ SocketOpen(1)
    \/ PhxReply(1, chan[1].joinRef, "ok", ABSENT, ABSENT)
    \/ nreq = 0 /\ Request("t1", "", "none", NULL)
    \/ SocketClose(1)
    \/ SocketError(1)
    \/ \E event \in {"phx_error", "phx_close"} : PhxError(1, event)
    \/ \E event \in {"phx_error", "phx_close"} : RemoteSend(1, EventFrame(event))
    \/ ReadLoop(1)

DisconnectSpec == InitWith({"did:web:alice"}) /\ [][DisconnectNext]_vars

\* Cancellation and write failures: a connected client that issues requests
\* with and without a signal and sends, while signals fire and the socket
\* closes under it.
CancelNext ==
    \/ ClientConnect(1, "none", NULL)
    \/ ClientConnectContinue(1)
    \/ SocketOpen(1)
    \/ SocketClose(1)
    \/ PhxReply(1, chan[1].joinRef, "ok", ABSENT, ABSENT)
    \/ \E threadId \in CallerThreads, sig \in {"none", "live"} :
          Request(threadId, "", sig, NULL)
    \/ \E r \in Reqs, reason \in SignalReasons : AbortRequest(r, reason, FALSE)
    \/ ClientSend("")

CancelSpec == InitWith({"did:web:alice"}) /\ [][CancelNext]_vars

\* the identifier the remote side gives the k-th frame it writes to a socket
MsgIds == <<"m1", "m2", "m3", "m4", "m5">>

\* Malformed frames: a client with a handler and a pending request, to whose
\* socket the remote side writes frames of every malformed kind (no JSON, no
\* array, 4 or 6 elements, a null payload, a payload without plaintext or with
\* a null one) between well-formed messages, replies and join replies.
DropFrames(k) ==
    LET good == Plaintext(MsgIds[k], ReqType, Bob, ABSENT, EmptyObject)
        reply == Plaintext(MsgIds[k], RespType, Bob, "t1", EmptyObject)
    IN  {RawFrame("invalid", 0, NoRef, "", NullPayload),
         RawFrame("object", 0, NoRef, "", NullPayload),
         RawFrame("array", 4, NoRef, "message", Envelope(good)),
         RawFrame("array", 6, NoRef, "message", Envelope(reply)),
         RawFrame("array", 4, 1, "phx_reply",
                  Payload("object", "ok", ABSENT, ABSENT, "absent", NoPlaintext)),
         RawFrame("array", 5, NoRef, "message", NullPayload),
         RawFrame("array", 5, NoRef, "message", EmptyPayload),
         RawFrame("array", 5, NoRef, "message",
                  Payload("object", ABSENT, ABSENT, ABSENT, "null", reply)),
         MessageFrame(good), MessageFrame(reply), ReplyFrame(1, "ok", ABSENT)}

DropNext ==
    \/ handle(ReqType, "fn1", FALSE)
    \/ ClientConnect(1, "none", NULL)
    \/ ClientConnectContinue(1)
    \/ SocketOpen(1)
    \/ PhxReply(1, chan[1].joinRef, "ok", ABSENT, ABSENT)
    \/ Request("t1", "", "none", NULL)
    \/ \E data \in DropFrames(Len(inbox[1].frames) + 1) : RemoteSend(1, data)
    \/ ReadLoop(1)

DropSpec == InitWith({"did:web:alice"}) /\ [][DropNext]_vars

\* Inbound routing: a client with a handler in either acknowledgment mode and
\* one request, to whose socket the remote side writes messages of the handled
\* type, with and without the thread of the request, and of a type no handler
\* is registered for, while handlers run and complete and the client closes.
RouteFrames(k) ==
    {MessageFrame(Plaintext(MsgIds[k], ReqType, Bob, ABSENT, EmptyObject)),
     MessageFrame(Plaintext(MsgIds[k], ReqType, Bob, "t1", EmptyObject)),
     MessageFrame(Plaintext(MsgIds[k], RespType, Bob, ABSENT, EmptyObject))}

RouteNext ==
    \/ \E manualAck \in BOOLEAN : handle(ReqType, "fn1", manualAck)
    \/ ClientConnect(1, "none", NULL)
    \/ ClientConnectContinue(1)
    \/ ClientClose
    \/ SocketOpen(1)
    \/ PhxReply(1, chan[1].joinRef, "ok", ABSENT, ABSENT)
    \/ nreq = 0 /\ Request("t1", "", "none", NULL)
    \/ \E data \in RouteFrames(Len(inbox[1].frames) + 1) : RemoteSend(1, data)
    \/ ReadLoop(1)
    \/ \E t \in 1..TaskRoom : HandlerReturn(t, NullResponse)

RouteSpec == InitWith({"did:web:alice"}) /\ [][RouteNext]_vars

\* ------------------------------------------------------------------ claims
Settled(r) == req[r].state \in {"resolved", "rejected"}

\* this step settles request r with an inbound message
SettledByMessage(r) ==
    /\ req[r].state = "pending"
    /\ req'[r].state # "pending"
    /\ req'[r].result.kind \in {"message", "problem"}

(* C1: when a message with thread identifier T is delivered, every request
   that registered T and is still pending is settled with that message, and
   no request or table entry of another thread identifier is touched. *)
C1_Original ==
    [][\A r \in Reqs : SettledByMessage(r) =>
          /\ req'[r].result.msg.threadId = req[r].threadId
          /\ \A q \in Reqs :
                /\ (req[q].state = "pending" /\ req[q].threadId = req[r].threadId)
                      => (SettledByMessage(q) /\ req'[q].result.msg = req'[r].result.msg)
                /\ req[q].threadId # req[r].threadId => req'[q] = req[q]
          /\ \A t \in DOMAIN pending : t # req[r].threadId => pending'[t] = pending[t]]_vars

\* a request the close() of the client found unsettled
Discarded(r) == req[r].state = "pending" /\ isClosed /\ ~req[r].afterClose

(* C2: a request's promise is settled at most once, and once a reply, its
   cancellation or close() has taken effect for it, no later reply or
   cancellation changes it. *)
C2_Original ==
    [][\A r \in Reqs :
          /\ req'[r].settles <= 1
          /\ (Settled(r) \/ Discarded(r)) => req'[r] = req[r]]_vars

(* C3: every request whose echo reply was delivered is resolved with the
   reply that carries its own thread identifier and its own payload. *)
C3_Original ==
    \A r \in Reqs : req[r].replied =>
        /\ req[r].state = "resolved"
        /\ req[r].result.msg.threadId = req[r].threadId
        /\ req[r].result.msg.body.index = req[r].index

(* C4: request() never registers a thread identifier that already has an
   entry in the pending-request table. *)
C4_Original ==
    [][\A r \in Reqs : (req[r].state = "none" /\ req'[r].state = "pending")
          => pending[req'[r].threadId] = 0]_vars

\* this step is the signal of pending request r firing
AbortFires(r) ==
    /\ req[r].state = "pending"
    /\ req'[r].result.kind = "abort"

\* request r was rejected by its signal firing
Cancelled(r) == req[r].result.kind = "abort" /\ req[r].signal = "live"

(* C5 as stated: when the signal of a pending request fires, the promise
   rejects with the signal's reason and the entry of its thread identifier is
   removed; afterwards no reply settles it or finds an entry of it. *)
C5_Original ==
    [][\A r \in Reqs :
          /\ AbortFires(r) => /\ req'[r].state = "rejected"
                               /\ req'[r].result.error = req'[r].reason
                               /\ pending'[req[r].threadId] = 0
          /\ Cancelled(r) => /\ req'[r] = req[r]
                              /\ pending'[req[r].threadId] # r]_vars

(* C5 amended: as C5, but the promise rejects with the signal's reason only
   when the signal has one: a signal whose reason is null or undefined
   rejects it with a generic Error("aborted"). *)
C5_CancelRejects ==
    [][\A r \in Reqs :
          /\ AbortFires(r) => /\ req'[r].state = "rejected"
                               /\ req'[r].result.error =
                                     (IF req'[r].reason = NULL THEN "Error: aborted"
                                      ELSE req'[r].reason)
                               /\ pending'[req[r].threadId] = 0
          /\ Cancelled(r) => /\ req'[r] = req[r]
                              /\ pending'[req[r].threadId] # r]_vars

C5_Witness ==
    \E r \in Reqs : Cancelled(r) /\ req[r].reason = "TimeoutError" /\ nreq = MaxReq

\* a key of a report body, or the default when the key is missing or null
FieldOr(body, value, default) ==
    IF body.kind # "object" \/ value \in {ABSENT, NULL} THEN default ELSE value

(* C6: a request settled by a message of the problem-report type is rejected
   with a ProblemReportError whose code and comment are the report body's
   ("unknown" / "unknown error" when missing); one settled by any other
   message is resolved with that message. *)
C6_ProblemReportRejects ==
    \A r \in Reqs : req[r].result.kind \in {"message", "problem"} =>
        LET m == req[r].result.msg IN
        IF m.type = ProblemReportType
        THEN /\ req[r].state = "rejected"
             /\ req[r].result.kind = "problem"
             /\ req[r].result.code = FieldOr(m.bodyRaw, m.bodyRaw.code, "unknown")
             /\ req[r].result.comment =
                   FieldOr(m.bodyRaw, m.bodyRaw.comment, "unknown error")
        ELSE req[r].state = "resolved" /\ req[r].result.kind = "message"

C6_Witness ==
    \E r \in Reqs : /\ req[r].result.kind = "problem"
                     /\ req[r].result.code = ""
                     /\ req[r].result.comment = "unknown error"

(* C7: close() empties the pending-request table and settles no request; a
   request it found unsettled that has no cancellation signal is never
   settled afterwards. *)
C7_CloseDiscards ==
    [][/\ (~isClosed /\ isClosed') =>
            /\ \A t \in DOMAIN pending : pending'[t] = 0
            /\ req' = req
       /\ \A r \in Reqs : (Discarded(r) /\ req[r].signal = "none") => req'[r] = req[r]]_vars

C7_Witness ==
    \E r \in Reqs : /\ Discarded(r) /\ req[r].signal = "none"
                     /\ chan[1].sock = "CLOSING"
                     /\ nreq = MaxReq

(* C8: every request to which a reply carrying its thread identifier is
   delivered, or whose cancellation signal fires, is eventually settled. *)
C8_Original ==
    \A r \in Reqs : (req[r].replied \/ req[r].fired) ~> Settled(r)

\* the text of an error contains the string x
Contains(text, x) == \E i \in 1..Len(text) : text[i] = x

(* C9: when the join reply has status "error" and reason X, connect() fails
   with an error whose text contains X. *)
C9_Original ==
    \A c \in Chans :
        (chan[c].joinP = "rejected" /\ chan[c].replyReason # ABSENT)
            => (chan[c].connP = "rejected" /\ Contains(chan[c].connErr, chan[c].replyReason))

(* C10: after connect() failed with the reason of its cancellation signal,
   the socket is closed and no heartbeat timer is running. *)
C10_Original ==
    \A c \in Chans :
        (/\ chan[c].signal = "aborted"
         /\ chan[c].connP = "rejected"
         /\ chan[c].connErr = <<AbortReason(chan[c].reason)>>)
            => (chan[c].sock \in {"NONE", "CLOSING", "CLOSED"} /\ ~chan[c].heartbeatTimer)

\* the client holds a channel whose socket takes a frame
Writable == channel # 0 /\ writeMsgOk(chan[channel])

\* this step writes exactly one frame
WritesOne == Len(wire') = Len(wire) + 1 /\ SubSeq(wire', 1, Len(wire)) = wire

\* the frame this step wrote last
Written == wire'[Len(wire')]

\* this step is the completion of handler task t
Completes(t) ==
    /\ t \in 1..Len(tasks)
    /\ tasks[t].state = "running"
    /\ tasks'[t].state # "running"

\* the thread a reply to msg is correlated to
ReplyThread(msg) == IF msg.threadId # "" THEN msg.threadId ELSE msg.id

(* C11: a step in which an inbound message settles the request pending under
   its thread identifier starts no handler and writes no frame (no ack),
   whether or not a handler is registered for the message's type. *)
C11_ReplyNotDispatched ==
    [][\A r \in Reqs : SettledByMessage(r) => (tasks' = tasks /\ wire' = wire)]_vars

C11_Witness ==
    \E r \in Reqs : /\ req[r].result.kind = "message"
                     /\ req[r].result.msg.type = ReqType
                     /\ registry[ReqType] = HandlerEntry("fn1", FALSE)
                     /\ Len(tasks) = 0

(* C12: for every handler invoked in automatic-acknowledgment mode, the last
   frame written before its invocation is the ack of the message's identifier,
   so the ack precedes every frame the handler's completion writes. *)
C12_AckBeforeHandler ==
    \A t \in 1..Len(tasks) : ~tasks[t].manualAck =>
        /\ tasks[t].start >= 1
        /\ tasks[t].start <= Len(wire)
        /\ wire[tasks[t].start].event = "ack"
        /\ wire[tasks[t].start].payload.ids = <<tasks[t].msg.id>>
        /\ tasks[t].out # 0 =>
              /\ tasks[t].out > tasks[t].start
              /\ wire[tasks[t].out].event = "message"

C12_Witness ==
    \E t \in 1..Len(tasks) : /\ ~tasks[t].manualAck
                              /\ tasks[t].state = "done"
                              /\ tasks[t].how \in {"response", "throw"}
                              /\ tasks[t].out = Len(wire)

\* this step is a call of the ack callback by the handler of task t
AckCalled(t) ==
    /\ t \in 1..Len(tasks)
    /\ tasks[t].manualAck
    /\ tasks'[t].acks = tasks[t].acks + 1

(* C13 as stated: in manual-acknowledgment mode an ack frame is written only
   by a call of the ack callback, and every call of the callback writes one
   ack frame for the message's identifier. *)
C13_Original ==
    [][/\ (registry[ReqType].manualAck /\ wire' # wire /\ Written.event = "ack")
            => \E t \in 1..Len(tasks) : AckCalled(t)
       /\ \A t \in 1..MaxTask : AckCalled(t) =>
            /\ WritesOne
            /\ Written.event = "ack"
            /\ Written.payload.ids = <<tasks[t].msg.id>>]_vars

(* C13 amended: as C13, but a call of the callback writes the ack only while
   the client holds its channel and the socket is open; a call in any other
   state writes nothing. *)
C13_ManualAck ==
    [][/\ (registry[ReqType].manualAck /\ wire' # wire /\ Written.event = "ack")
            => \E t \in 1..Len(tasks) : AckCalled(t)
       /\ \A t \in 1..MaxTask : AckCalled(t) =>
            IF Writable
            THEN /\ WritesOne
                 /\ Written.event = "ack"
                 /\ Written.payload.ids = <<tasks[t].msg.id>>
            ELSE wire' = wire]_vars

C13_Witness ==
    \E t \in 1..Len(tasks) : /\ tasks[t].manualAck
                              /\ tasks[t].acks = 1
                              /\ tasks[t].how \in {"response", "throw"}
                              /\ \E i \in 1..Len(wire) : wire[i].event = "ack"

\* task t completes by returning a response that leaves recipients and thread
\* empty, for a message that names its sender
ReturnsPlain(t) ==
    /\ Completes(t)
    /\ tasks'[t].how = "response"
    /\ tasks'[t].resp.to = <<>>
    /\ tasks'[t].resp.threadId = ""
    /\ tasks[t].msg.from # ""

\* the one frame this step wrote is the response to msg
WroteResponse(msg) ==
    /\ WritesOne
    /\ Written.event = "message"
    /\ Written.payload.type = RespType
    /\ Written.payload.to = <<msg.from>>
    /\ Written.payload.thid = ReplyThread(msg)
    /\ Written.payload.from = agentDid

(* C14 as stated: a handler returning a response with empty recipients and
   thread transmits exactly one message, addressed to the sender, on the
   inbound thread (or message identifier), sent as the client's identity; a
   handler returning nothing transmits nothing. *)
C14_Original ==
    [][\A t \in 1..MaxTask :
          /\ ReturnsPlain(t) => WroteResponse(tasks[t].msg)
          /\ (Completes(t) /\ tasks'[t].how = "null") => wire' = wire]_vars

(* C14 amended: as C14 when the client holds its channel and the socket is
   open at the time the handler returns; in any other state nothing is
   transmitted for the response. *)
C14_ResponseFilled ==
    [][\A t \in 1..MaxTask :
          /\ ReturnsPlain(t) =>
                (IF Writable THEN WroteResponse(tasks[t].msg) ELSE wire' = wire)
          /\ (Completes(t) /\ tasks'[t].how = "null") => wire' = wire]_vars

C14_Witness ==
    \E t \in 1..Len(tasks) : /\ tasks[t].how = "response"
                              /\ tasks[t].state = "done"
                              /\ tasks[t].resp.to = <<>>
                              /\ tasks[t].msg.from = Bob
                              /\ tasks[t].msg.threadId = ""
                              /\ wire[Len(wire)].payload.thid = tasks[t].msg.id

\* task t completes by throwing, for a message that names its sender
Throws(t) ==
    /\ Completes(t)
    /\ tasks'[t].how = "throw"
    /\ tasks[t].msg.from # ""

\* the one frame this step wrote is the problem report for msg
WroteReport(msg) ==
    /\ WritesOne
    /\ Written.event = "message"
    /\ Written.payload.type = ProblemReportType
    /\ Written.payload.to = <<msg.from>>
    /\ Written.payload.thid = ReplyThread(msg)

(* C15 as stated: a handler that throws transmits exactly one message, a
   problem report addressed to the sender on the inbound thread (or message
   identifier), and no response. *)
C15_Original ==
    [][\A t \in 1..MaxTask : Throws(t) => WroteReport(tasks[t].msg)]_vars

(* C15 amended: as C15 when the client holds its channel and the socket is
   open at the time the handler throws; in any other state nothing is
   transmitted. *)
C15_ProblemReportSent ==
    [][\A t \in 1..MaxTask :
          Throws(t) =>
             (IF Writable THEN WroteReport(tasks[t].msg) ELSE wire' = wire)]_vars

C15_Witness ==
    \E t \in 1..Len(tasks) : /\ tasks[t].how = "throw"
                              /\ tasks[t].state = "done"
                              /\ tasks[t].msg.from = Bob
                              /\ wire[Len(wire)].payload.type = ProblemReportType

(* C16: no handler task ends with an error that nothing catches, in whatever
   state of the client and the socket the handler completes. *)
C16_Original ==
    \A t \in 1..Len(tasks) : tasks[t].state # "unhandled"

\* a connect() of this client has completed successfully
HasConnected == \E c \in Chans : chan[c].cont = "done" /\ chan[c].connP = "resolved"

(* C17: once a connect() has completed successfully, handle() throws
   AlreadyConnectedError and no step adds an entry to the handler registry,
   in every later state, including after close(). *)
C17_Original ==
    [][HasConnected => (handleThrows = "AlreadyConnectedError" /\ registry' = registry)]_vars

(* C18: connect() throws AlreadyConnectedError on a connected client and
   ClientClosedError on a client that was closed. *)
C18_Original ==
    /\ connected => connectThrows = "AlreadyConnectedError"
    /\ isClosed => connectThrows = "ClientClosedError"

(* C19: before a connect() has succeeded and after close(), send() and
   request() throw NotConnectedError, and no step issues a request, writes a
   message frame or registers a pending entry for one. *)
C19_Original ==
    [][(~HasConnected \/ isClosed) =>
          /\ sendThrows = "NotConnectedError"
          /\ nreq' = nreq
          /\ \A t \in DOMAIN pending : pending'[t] # 0 => pending'[t] = pending[t]]_vars

\* phx_leave frames written on channel c
Leaves(w, c) == {i \in 1..Len(w) : w[i].ch = c /\ w[i].event = "phx_leave"}

(* C20: the first close() stops the heartbeat timer and closes the socket of
   every transport the client created, and at most one phx_leave frame is ever
   written per transport; a later close() changes nothing. *)
C20_Original ==
    [][/\ (~isClosed /\ isClosed') =>
            \A c \in Chans : /\ ~chan'[c].heartbeatTimer
                             /\ chan'[c].sock \notin {"CONNECTING", "OPEN"}
       /\ \A c \in Chans : Cardinality(Leaves(wire', c)) <= 1]_vars

(* C21: once close() has been called no disconnect event is emitted, whatever
   arrives afterwards: a phx_error or phx_close frame, or a socket-level close
   or error. *)
C21_Original ==
    [][isClosed => emitted' = emitted]_vars

\* this step is connect() call c completing successfully
ConnectCompletes(c) ==
    /\ chan[c].cont = "waiting"
    /\ chan'[c].cont = "done"
    /\ chan[c].connP = "resolved"

(* C22: the identity changes only in a step that completes a connect()
   successfully, and only when none was configured and the join reply carried
   one; a configured identity is never replaced; and with none configured the
   identity after a connect() whose join reply carried one is that one. *)
C22_Original ==
    [][/\ agentDid' # agentDid =>
            /\ cfgAgentDid = ""
            /\ \E c \in Chans : ConnectCompletes(c) /\ chan[c].assignedDIDVal # ""
       /\ cfgAgentDid # "" => agentDid' = cfgAgentDid
       /\ \A c \in Chans :
            (ConnectCompletes(c) /\ cfgAgentDid = "" /\ chan[c].assignedDIDVal # "")
                => agentDid' = chan[c].assignedDIDVal]_vars

\* the types that have an entry in the registry
Registered == {t \in DOMAIN registry : registry[t] # NoEntry}

(* C23: no step changes or removes the entry a type already has (a second
   registration of the type leaves handler and acknowledgment mode as they
   were), a step adds an entry for at most one type, and lookup returns an
   entry only for a string that is itself registered, never for a prefix or
   an extension of a registered type. *)
C23_RegistryKeepsFirst ==
    [][/\ \A t \in MsgTypes : registry[t] # NoEntry => registry'[t] = registry[t]
       /\ Cardinality({t \in MsgTypes : registry'[t] # registry[t]}) <= 1
       /\ \A str \in MsgTypes \cup ProtocolStrings :
            lookup(str) # NoEntry => (str \in Registered /\ lookup(str) = registry[str])]_vars

C23_Witness ==
    /\ registry[ReqType] = HandlerEntry("fn2", TRUE)
    /\ registry[RespType] = HandlerEntry("fn1", FALSE)
    /\ lookup(EchoProtocol) = NoEntry
    /\ lookup("https://layr8.io/protocols/echo") = NoEntry
    /\ connected

\* p is the string t with its final "/"-delimited piece removed
Strips(p, t) ==
    /\ Len(Segments(p)) = Len(Segments(t)) - 1
    /\ Segments(p) = SubSeq(Segments(t), 1, Len(Segments(t)) - 1)

\* the same, but a string with no "/" is kept whole
StripsOrWhole(p, t) == IF Len(Segments(t)) = 1 THEN p = t ELSE Strips(p, t)

\* P holds a string for every type in `types`, and nothing else
Covers(P, types, Rel(_, _)) ==
    /\ \A p \in P : \E t \in types : Rel(p, t)
    /\ \A t \in types : \E p \in P : Rel(p, t)

\* this step is connect() creating channel c
ConnectCalled(c) == chan[c].connP = "none" /\ chan'[c].connP # "none"

(* C24 as stated: protocols() is the set of the registered types each with
   its final "/"-delimited segment removed; connect() takes this set, and the
   join frame of that connect() announces it as payload_types. *)
C24_Original ==
    [][/\ Covers(protocols, Registered, Strips)
       /\ \A c \in Chans : ConnectCalled(c) => chan'[c].protocols = protocols
       /\ (wire' # wire /\ Written.event = "phx_join")
             => Written.payload.payload_types = chan[Written.ch].protocols]_vars

(* C24 amended: as C24, but a registered type that contains no "/" is
   announced whole: only a type with a "/" loses its final segment. *)
C24_ProtocolsAnnounced ==
    [][/\ Covers(protocols, Registered, StripsOrWhole)
       /\ Covers(protocols', Registered', StripsOrWhole)
       /\ \A c \in Chans : ConnectCalled(c) => chan'[c].protocols = protocols
       /\ (wire' # wire /\ Written.event = "phx_join")
             => Written.payload.payload_types = chan[Written.ch].protocols]_vars

C24_Witness ==
    /\ {ReqType, RespType, BareType} \subseteq Registered
    /\ \E i \in 1..Len(wire) : /\ wire[i].event = "phx_join"
                                 /\ wire[i].payload.payload_types = {EchoProtocol, BareType}

\* the completion of task t transmitted a response
Transmitted(t) == tasks[t].how = "response" /\ tasks[t].sent # NoMsg

\* the envelope written for it, and that envelope decoded as a plaintext
Encoded(t) == wire[tasks[t].out].payload
Decoded(t) == parseDIDComm(Encoded(t))

\* d has the identifier, type, sender, recipients and threads of m
SameHeader(d, m) ==
    /\ d.id = m.id
    /\ d.type = m.type
    /\ d.from = m.from
    /\ d.to = m.to
    /\ d.threadId = m.threadId
    /\ d.parentThreadId = m.parentThreadId

(* C25 as stated: an internal message with non-empty thread and parent-thread
   identifiers, encoded and decoded again, has the same identifier, type,
   sender, recipients, thread, parent thread and body; an empty thread field
   leaves no thid / pthid key in the encoded form. *)
C25_Original ==
    \A t \in 1..Len(tasks) : Transmitted(t) =>
        /\ (tasks[t].sent.threadId # "" /\ tasks[t].sent.parentThreadId # "")
              => (SameHeader(Decoded(t), tasks[t].sent)
                  /\ Decoded(t).body = tasks[t].sent.body)
        /\ tasks[t].sent.threadId = "" => Encoded(t).thid = ABSENT
        /\ tasks[t].sent.parentThreadId = "" => Encoded(t).pthid = ABSENT

(* C25 amended: as C25, but the body comes back the same only when it is not
   null: a message with a null body and no raw body is encoded with the empty
   object as body, and decodes with the empty object. *)
C25_RoundTrip ==
    \A t \in 1..Len(tasks) : Transmitted(t) =>
        /\ (tasks[t].sent.threadId # "" /\ tasks[t].sent.parentThreadId # "")
              => (SameHeader(Decoded(t), tasks[t].sent)
                  /\ Decoded(t).body = (IF tasks[t].sent.body.kind = "object"
                                         THEN tasks[t].sent.body ELSE EmptyObject))
        /\ tasks[t].sent.threadId = "" => Encoded(t).thid = ABSENT
        /\ tasks[t].sent.parentThreadId = "" => Encoded(t).pthid = ABSENT

C25_Witness ==
    \E t \in 1..Len(tasks) :
        /\ Transmitted(t)
        /\ tasks[t].sent.threadId = "t1"
        /\ tasks[t].sent.parentThreadId = "p1"
        /\ tasks[t].sent.to = <<"did:web:carol", Bob>>
        /\ tasks[t].sent.body.index = "i1"
        /\ Decoded(t).parentThreadId = "p1"

\* transport c is live: its socket is connecting or open, or its timer is set
Live(c) == chan[c].sock \in {"CONNECTING", "OPEN"} \/ chan[c].heartbeatTimer

(* C26: once close() has been called the client is not connected, holds no
   channel, has no live transport, and send() and request() throw
   NotConnectedError. *)
C26_Original ==
    isClosed =>
        /\ ~connected
        /\ channel = 0
        /\ sendThrows = "NotConnectedError"
        /\ \A c \in Chans : ~Live(c)

(* C27: at most one transport of the client is live at any time, and after
   close() none of the transports it created is live. *)
C27_Original ==
    /\ Cardinality({c \in Chans : Live(c)}) <= 1
    /\ isClosed => \A c \in Chans : ~Live(c)

\* this step is a heartbeat of channel c that could not be written: the tick
\* took a ref and wrote no frame
HeartbeatFailed(c) ==
    /\ wire' = wire
    /\ chan'[c] = [chan[c] EXCEPT !.refCounter = @ + 1]

(* C28: while connect() has failed or close() has been called, no heartbeat
   timer is set and no heartbeat frame is written; and a heartbeat that
   cannot be written emits no disconnect event and changes nothing of the
   client or of the socket. *)
C28_Original ==
    [][\A c \in Chans :
          /\ (chan[c].connP = "rejected" \/ isClosed) =>
                /\ ~chan[c].heartbeatTimer
                /\ ~(wire' # wire /\ Written.event = "heartbeat" /\ Written.ch = c)
          /\ HeartbeatFailed(c) =>
                /\ emitted' = emitted
                /\ <<clientVars, pending, registry, req, nreq, tasks>>' =
                      <<clientVars, pending, registry, req, nreq, tasks>>]_vars

\* the join of channel c has been settled
JoinSettled(c) == chan[c].joinP \in {"resolved", "rejected"}

(* C29: the promise of connect() resolves, and connect() completes, only
   with a phx_reply received that carried the join reference and status "ok";
   a reply that settled the join either way carried the join reference; and
   once the join is settled no step settles it again or changes what the reply
   assigned. *)
C29_JoinReply ==
    [][\A c \in Chans :
          /\ (chan'[c].connP = "resolved" \/ ConnectCompletes(c)) =>
                /\ chan'[c].replyStatus = "ok"
                /\ chan'[c].replyRef = chan'[c].joinRef
                /\ chan'[c].joinRef # NoRef
          /\ chan'[c].replyStatus # ABSENT => chan'[c].replyRef = chan'[c].joinRef
          /\ JoinSettled(c) =>
                /\ chan'[c].joinP = chan[c].joinP
                /\ chan'[c].assignedDIDVal = chan[c].assignedDIDVal
                /\ chan'[c].replyStatus = chan[c].replyStatus
                /\ chan[c].connP \in {"resolved", "rejected"}
                /\ chan'[c].connP = chan[c].connP]_vars

C29_Witness ==
    /\ connected
    /\ chan[1].cont = "done"
    /\ chan[1].replyStatus = "ok"
    /\ chan[1].assignedDIDVal = "did:web:node:test"
    /\ chan[1].refCounter > chan[1].joinRef

(* C30: of two frames written on one transport the later carries the greater
   ref; the join frame carries the join reference as ref and joinRef, every
   other frame carries a null joinRef and a ref other than the join
   reference; and the join reference, once set, never changes. *)
C30_RefsIncrease ==
    [][/\ \A i, j \in 1..Len(wire') :
            (i < j /\ wire'[i].ch = wire'[j].ch) => wire'[i].ref < wire'[j].ref
       /\ \A i \in 1..Len(wire') :
            IF wire'[i].event = "phx_join"
            THEN /\ wire'[i].ref = chan'[wire'[i].ch].joinRef
                 /\ wire'[i].joinRef = wire'[i].ref
            ELSE /\ wire'[i].joinRef = NoRef
                 /\ wire'[i].ref # chan'[wire'[i].ch].joinRef
       /\ \A c \in Chans :
            chan[c].joinRef # NoRef => chan'[c].joinRef = chan[c].joinRef]_vars

C30_Witness ==
    /\ \E i \in 1..Len(wire) : wire[i].event = "phx_join"
    /\ \E i \in 1..Len(wire) : wire[i].event = "heartbeat"
    /\ \E i \in 1..Len(wire) : wire[i].event \in {"message", "ack"}
    /\ wire[Len(wire)].event = "phx_leave"
    /\ wire[Len(wire)].ref = MaxRef + 1

\* this step gives the "message" listener of socket c its next frame
Reads(c) == inbox'[c].read = inbox[c].read + 1

\* the k-th frame the remote side wrote to socket c
Arrived(c, k) == inbox[c].frames[k]

\* the frame a step that Reads(c) gives the listener
FrameRead(c) == Arrived(c, inbox[c].read + 1)

\* the frame does not parse as a 5-element frame, or it is a message whose
\* payload fails to decode
Malformed(data) ==
    \/ unmarshalThrows(data)
    \/ data.event = "message" /\ parseDIDCommThrows(data.payload)

(* C31: a step in which the read loop is given a frame that does not parse as
   a 5-element frame, or a message whose payload fails to decode, changes
   nothing but the read position: session, pending table, registry, requests,
   handler tasks, events and written frames stay as they were, and the frames
   behind it are read. *)
C31_MalformedDropped ==
    [][\A c \in Chans : (Reads(c) /\ Malformed(FrameRead(c))) =>
          /\ stateVars' = stateVars
          /\ inbox'[c].frames = inbox[c].frames]_vars

C31_Witness ==
    /\ inbox[1].read = 2
    /\ Malformed(Arrived(1, 1))
    /\ Arrived(1, 1).event = "message"
    /\ Arrived(1, 2) = MessageFrame(Plaintext("m2", ReqType, Bob, ABSENT, EmptyObject))
    /\ Len(tasks) = 1 /\ tasks[1].msg.id = "m2"
    /\ \E r \in Reqs : req[r].state = "pending" /\ pending[req[r].threadId] = r

\* a handler invocation has not completed
Running == \E t \in 1..Len(tasks) : tasks[t].state = "running"

\* the message of a well-formed "message" frame
MessageOf(data) == parseDIDComm(plaintextOf(data.payload))
WellFormed(data) == ~Malformed(data) /\ data.event = "message"

\* the request whose pending entry the message is correlated to (0: none)
Correlated(msg) ==
    IF msg.threadId # "" /\ msg.threadId \in DOMAIN pending THEN pending[msg.threadId] ELSE 0

\* the automatic ack of the message can be written
AckWritable(msg) == lookup(msg.type).manualAck \/ Writable

\* this step starts a handler for msg
Invokes(msg) ==
    /\ Len(tasks') = Len(tasks) + 1
    /\ SubSeq(tasks', 1, Len(tasks)) = tasks
    /\ tasks'[Len(tasks')].msg = msg
    /\ tasks'[Len(tasks')].state = "running"

(* C32: a message frame read while a handler is still running is routed as
   any other: when it carries the thread identifier of a pending request, that
   request is settled with it, and otherwise, when a handler is registered for
   its type (and its ack can be written), that handler is invoked. *)
C32_RunningHandlerNoBlock ==
    [][\A c \in Chans : (Reads(c) /\ Running /\ WellFormed(FrameRead(c))) =>
          LET msg == MessageOf(FrameRead(c))
              r == Correlated(msg)
          IN  IF r # 0
              THEN /\ SettledByMessage(r)
                   /\ req'[r].result.msg = msg
              ELSE (lookup(msg.type) # NoEntry /\ AckWritable(msg)) => Invokes(msg)]_vars

C32_Witness ==
    /\ Len(tasks) = 2
    /\ tasks[1].state = "running" /\ tasks[1].msg.id = "m1"
    /\ tasks[2].state = "running" /\ tasks[2].msg.id = "m2"
    /\ inbox[1].read = 2

\* the position, among the frames written to the socket, of the one with this id
Position(id) == CHOOSE k \in 1..Len(MsgIds) : MsgIds[k] = id

\* handler task t was started for the frame at the position of its message
StartedFor(c, t) ==
    /\ Position(tasks[t].msg.id) <= inbox[c].read
    /\ WellFormed(Arrived(c, Position(tasks[t].msg.id)))
    /\ MessageOf(Arrived(c, Position(tasks[t].msg.id))) = tasks[t].msg

\* the ack written for task t when it was started in automatic mode
AckOf(t) == wire[tasks[t].start]

(* C33: handlers are invoked in the order in which their messages arrived on
   the socket: of two invocations, the earlier one is for the frame written
   earlier, and in automatic mode the ack of the earlier message is written,
   and its handler invoked, before the ack of the later message. *)
C33_ArrivalOrder ==
    \A t1, t2 \in 1..Len(tasks) : t1 < t2 =>
        /\ StartedFor(1, t1) /\ StartedFor(1, t2)
        /\ Position(tasks[t1].msg.id) < Position(tasks[t2].msg.id)
        /\ tasks[t1].start <= tasks[t2].start
        /\ (~tasks[t1].manualAck /\ ~tasks[t2].manualAck) =>
              /\ tasks[t1].start < tasks[t2].start
              /\ AckOf(t1).event = "ack" /\ AckOf(t1).payload.ids = <<tasks[t1].msg.id>>
              /\ AckOf(t2).event = "ack" /\ AckOf(t2).payload.ids = <<tasks[t2].msg.id>>

C33_Witness ==
    /\ Len(tasks) = 2
    /\ ~tasks[1].manualAck /\ ~tasks[2].manualAck
    /\ tasks[1].msg.id = "m1" /\ tasks[2].msg.id = "m2"
    /\ Len(wire) >= 3
    /\ wire[Len(wire)].event = "ack" /\ wire[Len(wire)].payload.ids = <<"m2">>
    /\ wire[Len(wire) - 1].event = "ack" /\ wire[Len(wire) - 1].payload.ids = <<"m1">>

\* this step is request() number r getting past its connected check
Issues(r) == req[r].state = "none" /\ req'[r].state # "none"

(* C34: a request() that passes the connected check while the message cannot
   be written (the socket of the client's channel is not open) writes no frame
   and returns a promise rejected, once, with NotConnectedError; the entry of
   its thread identifier is removed and its abort listener detached. *)
C34_WriteFailureRejects ==
    [][\A r \in Reqs : (Issues(r) /\ ~Writable /\ req'[r].signal # "aborted") =>
          /\ req'[r].state = "rejected"
          /\ req'[r].result.kind = "error"
          /\ req'[r].result.error = "NotConnectedError"
          /\ req'[r].settles = 1
          /\ ~req'[r].listener
          /\ pending'[req'[r].threadId] = 0
          /\ wire' = wire]_vars

C34_Witness ==
    \E r \in Reqs : /\ req[r].result.error = "NotConnectedError"
                     /\ req[r].signal = "live"
                     /\ connected /\ channel = 1 /\ chan[1].sock = "CLOSED"
                     /\ \A t \in DOMAIN pending : pending[t] # r

(* C35: the step in which the signal of a pending request fires changes that
   request and its own entry in the pending table and nothing else: the
   client's flags and channel, the channel object and its socket, the written
   frames, the other requests and the entries that hold other requests stay
   as they were, so send() and request() pass or fail their checks as before. *)
C35_Original ==
    [][\A r \in Reqs : AbortFires(r) =>
          /\ clientVars' = clientVars
          /\ chan' = chan
          /\ wire' = wire
          /\ <<registry, tasks, emitted, nreq, idCounter>>' =
                <<registry, tasks, emitted, nreq, idCounter>>
          /\ \A q \in Reqs : q # r => req'[q] = req[q]
          /\ \A t \in DOMAIN pending : pending[t] # r => pending'[t] = pending[t]
          /\ sendThrows' = sendThrows
          /\ Writable' = Writable]_vars

(* C36: a step in which the read loop is given a well-formed message that
   carries the thread identifier of no pending request and whose type has no
   registered handler changes nothing but the read position: no ack, response
   or problem report is written, no handler is invoked, and the pending table
   and the requests stay as they were. *)
C36_UnhandledDropped ==
    [][\A c \in Chans :
          (/\ Reads(c)
           /\ WellFormed(FrameRead(c))
           /\ Correlated(MessageOf(FrameRead(c))) = 0
           /\ MessageOf(FrameRead(c)).type \notin Registered)
          => /\ wire' = wire
             /\ tasks' = tasks
             /\ pending' = pending
             /\ req' = req
             /\ chan' = chan
             /\ emitted' = emitted]_vars

C36_Witness ==
    /\ inbox[1].read = 1
    /\ MessageOf(Arrived(1, 1)).type = RespType
    /\ registry[ReqType] # NoEntry
    /\ req[1].state = "pending" /\ pending["t1"] = 1
    /\ tasks = <<>>
    /\ Len(wire) = 2

\* this step is connect() on channel c failing: its await throws
ConnectFails(c) ==
    /\ chan[c].cont = "waiting" /\ chan'[c].cont = "done"
    /\ chan[c].connP = "rejected"

(* C37: the step in which connect() fails leaves the client as it was: the
   connected and closed flags, the channel it holds, its identity, the
   registry and the pending table are unchanged and the failed channel is not
   adopted, so on a client that was not connected send() and request() still
   fail with NotConnectedError and handle() is still permitted, and unless it
   was closed a later connect() is permitted; a client none of whose connect()
   calls has succeeded is unconnected, holds no channel and has its configured
   identity. *)
C37_FailedConnectKeepsClient ==
    [][/\ \A c \in Chans : ConnectFails(c) =>
             /\ <<connected, isClosed, channel, agentDid, registry, pending>>' =
                   <<connected, isClosed, channel, agentDid, registry, pending>>
             /\ channel' # c
             /\ ~connected => (sendThrows' = "NotConnectedError" /\ handleThrows' = "none")
             /\ (~connected /\ ~isClosed) => connectThrows' = "none"
       /\ (\A c \in Chans : chan'[c].connP # "resolved") =>
             (~connected' /\ channel' = 0 /\ agentDid' = cfgAgentDid')]_vars

C37_Witness ==
    /\ chan[1].cont = "done" /\ chan[1].connP = "rejected"
    /\ chan[1].replyStatus = "error"
    /\ chan[2].cont = "done" /\ chan[2].connP = "resolved"
    /\ connected /\ channel = 2
    /\ cfgAgentDid = "" /\ agentDid = "did:web:node:test"

\* this step delivers a disconnect notification: the client emits an event,
\* or the socket of a channel that listens and was not closed locally closes
Notifies ==
    \/ emitted' # emitted
    \/ \E c \in Chans : /\ chan[c].readLoop /\ ~chan[c].closed
                         /\ chan[c].sock # "CLOSED" /\ chan'[c].sock = "CLOSED"

(* C38: a step that delivers a disconnect notification changes nothing of the
   client: its flags, channel and identity, the pending table and the requests
   are as before, no frame is written, no connect() starts or completes and no
   socket is opened; a connected client stays connected with the same channel
   and connect() still fails with AlreadyConnectedError. Every event the
   client emits is a disconnect event, and a connected client stops being
   connected only in the step of close(). *)
C38_DisconnectChangesNothing ==
    [][/\ Notifies =>
             /\ <<clientFields, pending, registry, req, nreq, wire, tasks>>' =
                   <<clientFields, pending, registry, req, nreq, wire, tasks>>
             /\ \A c \in Chans :
                   /\ chan'[c].cont = chan[c].cont
                   /\ chan'[c].ws = chan[c].ws
                   /\ chan'[c].sock = "CONNECTING" => chan[c].sock = "CONNECTING"
             /\ connected => connectThrows' = "AlreadyConnectedError"
       /\ \A e \in emitted' : e.event = "disconnect"
       /\ (connected /\ ~connected') => (~isClosed /\ isClosed')]_vars

C38_Witness ==
    /\ connected /\ ~isClosed /\ channel = 1
    /\ chan[1].sock = "CLOSED"
    /\ pending["t1"] = 1 /\ req[1].state = "pending"
    /\ \E e \in emitted : e.why = "phx_error"
    /\ \E e \in emitted : e.why = "WebSocket closed"
    /\ inbox[1].read > 0

\* the identifiers an ack frame acknowledges
AckedIds ==
    UNION {{wire[i].payload.ids[j] : j \in 1..Len(wire[i].payload.ids)} :
              i \in {k \in 1..Len(wire) : wire[k].event = "ack"}}

(* C39: the identifier of a message that settled a pending request is in no
   ack frame the client has written, and the message was handed to no handler
   (whose ack callback could acknowledge it), whether the handler registered
   for its type acknowledges automatically or manually. *)
C39_ReplyNeverAcked ==
    \A r \in Reqs : req[r].result.kind = "message" =>
        /\ req[r].result.msg.id \notin AckedIds
        /\ \A t \in 1..Len(tasks) : tasks[t].msg.id # req[r].result.msg.id

C39_Witness ==
    /\ req[1].result.kind = "message"
    /\ req[1].result.msg.id = "m2"
    /\ req[1].result.msg.type = ReqType
    /\ registry[ReqType] = HandlerEntry("fn1", FALSE)
    /\ AckedIds = {"m1"}
    /\ inbox[1].read = 2

(* C40: a step in which the read loop is given a message that is the reply to
   no pending request and whose type has a handler in automatic
   acknowledgment mode either writes the ack of the message's identifier and
   invokes the handler behind it, or, when the client holds no channel or the
   socket of its channel is not open, invokes no handler and writes nothing
   (no ack, no problem report) and leaves pending table, requests and events
   as they were. *)
C40_NoAckNoHandler ==
    [][\A c \in Chans :
          (/\ Reads(c)
           /\ WellFormed(FrameRead(c))
           /\ Correlated(MessageOf(FrameRead(c))) = 0
           /\ MessageOf(FrameRead(c)).type \in Registered
           /\ ~registry[MessageOf(FrameRead(c)).type].manualAck)
          => IF Writable
             THEN /\ Invokes(MessageOf(FrameRead(c)))
                  /\ WritesOne
                  /\ Written.event = "ack"
                  /\ Written.payload.ids = <<MessageOf(FrameRead(c)).id>>
                  /\ tasks'[Len(tasks')].start = Len(wire')
             ELSE /\ tasks' = tasks
                  /\ wire' = wire
                  /\ pending' = pending
                  /\ req' = req
                  /\ emitted' = emitted]_vars

\* the first message, of the handled type, was read before connect() completed
C40_Witness ==
    /\ inbox[1].read = 1
    /\ MessageOf(Arrived(1, 1)).type = ReqType
    /\ MessageOf(Arrived(1, 1)).threadId = ""
    /\ registry[ReqType] = HandlerEntry("fn1", FALSE)
    /\ chan[1].cont = "waiting" /\ chan[1].connP = "resolved"
    /\ channel = 0 /\ ~isClosed
    /\ tasks = <<>>
    /\ AckedIds = {}

====
